---------------------------- MODULE Spec2Model ----------------------------
(***************************************************************************)
(* Model of the hosts-file section manager of make-your-choice (Linux):    *)
(* src/linux/src/hosts.rs (HostsManager), the region catalog of            *)
(* src/linux/src/region.rs, the apply / revert handlers of                 *)
(* src/linux/src/main.rs, and the CIDR table of                            *)
(* src/linux/src/aws_ranges.rs (AwsIpService).                             *)
(*                                                                         *)
(* Text is a sequence of text units.  A unit is a line break "\n", a       *)
(* blank " ", the comment character "#", or a word: a run of characters    *)
(* holding no white space and no '#'.  Words are written out in full and   *)
(* no word of the model is the concatenation of other units, so two texts  *)
(* are equal as strings iff they are equal as sequences of units.  Offsets *)
(* into a text are 0-based and counted in units, as the code counts bytes. *)
(***************************************************************************)
EXTENDS Integers, Sequences, FiniteSets, TLC

VARIABLES
    hosts,              \* content of /etc/hosts
    backup,             \* content of /etc/hosts.bak, or NoFile
    flushes,            \* number of resolver-cache flush commands run so far
    app_regions,        \* AppState.regions
    app_blocked,        \* AppState.blocked_regions
    selected_regions,   \* AppState.selected_regions
    settings,           \* AppState.settings: apply_mode, block_mode,
                        \* merge_unstable
    dialog,             \* the modal dialog awaiting an answer, with what its
                        \* response closure captured
    cidrs,              \* AwsIpService.cidrs: the table, in feed order
    fetch_lock,         \* AwsIpService.fetch_lock: its holder, or NoHolder
    calls,              \* the get_region calls: where each stands, its
                        \* argument, its result
    log                 \* (history) the calls and events so far, oldest first

fileVars == <<hosts, backup, flushes>>

appVars == <<app_regions, app_blocked, selected_regions, settings, dialog>>

awsVars == <<cidrs, fetch_lock, calls>>

vars == <<hosts, backup, flushes, app_regions, app_blocked, selected_regions,
          settings, dialog, cidrs, fetch_lock, calls, log>>

---------------------------------------------------------------------------
(* Text primitives (Rust str methods used by hosts.rs)                     *)

NL == "\n"
SP == " "
HASH == "#"

\* char::is_whitespace on the units of the model
IsWhitespace(u) == u \in {" ", "\n", "\t"}

\* Option::None of str::find
NONE == -1

SetMin(S) == CHOOSE x \in S : \A y \in S : x <= y
SetMax(S) == CHOOSE x \in S : \A y \in S : x >= y

\* &s[a..b], offsets 0-based, b exclusive
Slice(s, a, b) == SubSeq(s, a + 1, b)
\* &s[a..]
SliceFrom(s, a) == SubSeq(s, a + 1, Len(s))

\* s.starts_with(p), s.ends_with(p)
StartsWith(s, p) == Len(s) >= Len(p) /\ SubSeq(s, 1, Len(p)) = p
EndsWith(s, p) == Len(s) >= Len(p) /\ SubSeq(s, Len(s) - Len(p) + 1, Len(s)) = p

\* the offsets at which pat occurs in s
Occurrences(s, pat) ==
    { i \in 0..(Len(s) - Len(pat)) : \A k \in 1..Len(pat) : s[i + k] = pat[k] }

\* s.find(pat): offset of the first occurrence, or None
Find(s, pat) ==
    LET occ == Occurrences(s, pat) IN IF occ = {} THEN NONE ELSE SetMin(occ)

\* the elements of a set of integers, ascending
RECURSIVE Ascending(_)
Ascending(S) ==
    IF S = {} THEN <<>>
    ELSE LET least == SetMin(S) IN <<least>> \o Ascending(S \ {least})

\* s.lines(): the text between line breaks, a final empty piece left out
Lines(s) ==
    LET breaks == { i \in 1..Len(s) : s[i] = NL }
        starts == { i \in 1..Len(s) : i = 1 \/ s[i - 1] = NL }
        order == Ascending(starts)
        stop(i) == SetMin({ j \in breaks : j >= i } \cup {Len(s) + 1})
    IN  [k \in 1..Cardinality(starts) |->
            SubSeq(s, order[k], stop(order[k]) - 1)]

\* s.trim(): without the white space at both ends
Trim(s) ==
    LET solid == { i \in 1..Len(s) : ~IsWhitespace(s[i]) }
    IN  IF solid = {} THEN <<>> ELSE SubSeq(s, SetMin(solid), SetMax(solid))

\* s.split_whitespace(): the maximal runs of units that are not white space
SplitWhitespace(s) ==
    LET solid == { i \in 1..Len(s) : ~IsWhitespace(s[i]) }
        starts == { i \in solid : i = 1 \/ (i - 1) \notin solid }
        order == Ascending(starts)
        stop(i) == SetMin({ j \in i..(Len(s) + 1) : j \notin solid })
    IN  [k \in 1..Cardinality(starts) |->
            SubSeq(s, order[k], stop(order[k]) - 1)]

RECURSIVE Flatten(_)
\* concat of a sequence of texts
Flatten(ps) == IF ps = <<>> THEN <<>> ELSE Head(ps) \o Flatten(Tail(ps))

\* lines.join("\n")
JoinLines(ls) ==
    Flatten([k \in 1..Len(ls) |->
                IF k < Len(ls) THEN ls[k] \o <<NL>> ELSE ls[k]])

\* str::to_lowercase on the words of the model that hold a capital letter;
\* every other word of the model is in lower case already
LowerCased ==
    [ w \in { "GameLift.EU-West-2.amazonaws.com",
              "GameLift-Ping.EU-West-2.api.aws",
              "Gamelift-Ping.AF-South-1.api.aws",
              "LocalHost", "Make", "Your", "Choice", "Edited", "Server",
              "Selector)", "(DbD", "Unselected", "(Gatekeep", "Mode);",
              "Need", "Discord:", "https://discord.gg/xEMyAA8gn8",
              "Universal", "Redirect", "GameLift" } |->
        CASE w = "GameLift.EU-West-2.amazonaws.com" ->
                 "gamelift.eu-west-2.amazonaws.com"
          [] w = "GameLift-Ping.EU-West-2.api.aws" ->
                 "gamelift-ping.eu-west-2.api.aws"
          [] w = "Gamelift-Ping.AF-South-1.api.aws" ->
                 "gamelift-ping.af-south-1.api.aws"
          [] w = "LocalHost" -> "localhost"
          [] w = "Make" -> "make"
          [] w = "Your" -> "your"
          [] w = "Choice" -> "choice"
          [] w = "Edited" -> "edited"
          [] w = "Server" -> "server"
          [] w = "Selector)" -> "selector)"
          [] w = "(DbD" -> "(dbd"
          [] w = "Unselected" -> "unselected"
          [] w = "(Gatekeep" -> "(gatekeep"
          [] w = "Mode);" -> "mode);"
          [] w = "Need" -> "need"
          [] w = "Discord:" -> "discord:"
          [] w = "https://discord.gg/xEMyAA8gn8" ->
                 "https://discord.gg/xemyaa8gn8"
          [] w = "Universal" -> "universal"
          [] w = "Redirect" -> "redirect"
          [] w = "GameLift" -> "gamelift" ]

\* to_lowercase of a token (a run of units): unit by unit
to_lowercase(token) ==
    [k \in 1..Len(token) |->
        IF token[k] \in DOMAIN LowerCased THEN LowerCased[token[k]]
        ELSE token[k]]

---------------------------------------------------------------------------
(* hosts.rs: constants                                                     *)

\* "# --+ Make Your Choice +--"
SECTION_MARKER ==
    <<"#", " ", "--+", " ", "Make", " ", "Your", " ", "Choice", " ", "+--">>

\* no file at the path
NoFile == <<"<no file>">>

\* a byte sequence that is not valid UTF-8
NOT_UTF8 == "<0xFF>"

---------------------------------------------------------------------------
(* hosts.rs: reading and writing the file                                  *)

\* fs::read_to_string returns Ok: the file is there and its bytes are
\* valid UTF-8
ReadsAsString(file) ==
    file # NoFile /\ \A i \in 1..Len(file) : file[i] # NOT_UTF8

\* (mutant) the bytes of a file that does not read as a string taken as
\* they are
read_hosts_lossy(fs) == IF fs.hosts = NoFile THEN <<>> ELSE fs.hosts

\* read_hosts: the content, or the empty text when the read fails
read_hosts(fs) == IF ReadsAsString(fs.hosts) THEN fs.hosts ELSE <<>>

\* whether the flush command can be run; it can where the outcomes given
\* do not say
FlushRuns(io) == IF "flush_ok" \in DOMAIN io THEN io.flush_ok ELSE TRUE

\* (mutant) the backup taken after the write
write_hosts_backupAfter(fs, content, io) ==
    IF io.write_ok
    THEN [ok |-> TRUE,
          fs |-> [hosts |-> content,
                  backup |-> IF io.backup_ok THEN content ELSE fs.backup,
                  flushes |-> fs.flushes + (IF FlushRuns(io) THEN 1 ELSE 0)]]
    ELSE [ok |-> FALSE,
          fs |-> [hosts |-> fs.hosts,
                  backup |-> IF io.backup_ok /\ fs.hosts # NoFile
                             THEN fs.hosts ELSE fs.backup,
                  flushes |-> fs.flushes]]

\* (mutant) the errors of the backup and of the flush passed on
write_hosts_strict(fs, content, io) ==
    LET copied == IF io.backup_ok /\ fs.hosts # NoFile THEN fs.hosts
                  ELSE fs.backup
    IN  IF io.write_ok /\ io.backup_ok
        THEN [ok |-> FlushRuns(io),
              fs |-> [hosts |-> content, backup |-> copied,
                      flushes |-> fs.flushes
                                  + (IF FlushRuns(io) THEN 1 ELSE 0)]]
        ELSE [ok |-> FALSE,
              fs |-> [hosts |-> fs.hosts, backup |-> copied,
                      flushes |-> fs.flushes]]

\* write_hosts: best-effort backup, the write, best-effort cache flush.
\* io.backup_ok / io.write_ok: whether fs::copy / fs::write succeed; the
\* copy of a file that is not there fails.  The status of the flush command
\* is dropped.
write_hosts(fs, content, io) ==
    LET copied == IF io.backup_ok /\ fs.hosts # NoFile THEN fs.hosts
                  ELSE fs.backup
    IN  IF io.write_ok
        THEN [ok |-> TRUE,
              fs |-> [hosts |-> content, backup |-> copied,
                      flushes |-> fs.flushes
                                  + (IF FlushRuns(io) THEN 1 ELSE 0)]]
        ELSE [ok |-> FALSE,
              fs |-> [hosts |-> fs.hosts, backup |-> copied,
                      flushes |-> fs.flushes]]

\* first: original.find(SECTION_MARKER)
FirstMarker(original) == Find(original, SECTION_MARKER)

\* (mutant) the closing sentinel taken to be the last one of the file
LastMarker_rfind(original) ==
    LET occ == Occurrences(original, SECTION_MARKER) IN
    IF Cardinality(occ) < 2 THEN NONE ELSE SetMax(occ)

\* last: the next occurrence after the end of the first, or None
LastMarker(original) ==
    LET pos == FirstMarker(original) IN
    IF pos = NONE THEN NONE
    ELSE LET p == Find(SliceFrom(original, pos + Len(SECTION_MARKER)),
                       SECTION_MARKER)
         IN  IF p = NONE THEN NONE ELSE p + pos + Len(SECTION_MARKER)

\* the wrapped block built from inner_content
WrappedBlock(inner_content) ==
    IF inner_content = <<>> THEN <<>>
    ELSE LET content == IF EndsWith(inner_content, <<NL>>)
                        THEN inner_content
                        ELSE inner_content \o <<NL>>
         IN  SECTION_MARKER \o <<NL>> \o content \o SECTION_MARKER \o <<NL>>

\* (mutant) a single line break whatever the document ends with
AppendSuffix_single(original) == <<NL>>

\* suffix: what separates an unowned document from the appended block
AppendSuffix(original) ==
    IF EndsWith(original, <<NL>>) THEN <<NL>> ELSE <<NL, NL>>

\* (mutant) with a single sentinel, only the sentinel replaced and the text
\* after it kept
Spliced_keepsTail(original, first, last, wrapped) ==
    IF first # NONE /\ last # NONE
    THEN Slice(original, 0, first) \o wrapped
         \o SliceFrom(original, last + Len(SECTION_MARKER))
    ELSE IF first # NONE
    THEN Slice(original, 0, first) \o wrapped
         \o SliceFrom(original, first + Len(SECTION_MARKER))
    ELSE original \o AppendSuffix(original) \o wrapped

\* (mutant) the block appended whatever sentinels the document holds
Spliced_appended(original, first, last, wrapped) ==
    original \o AppendSuffix(original) \o wrapped

\* the match (first, last) of write_wrapped_section
Spliced(original, first, last, wrapped) ==
    IF first # NONE /\ last # NONE
    THEN Slice(original, 0, first) \o wrapped
         \o SliceFrom(original, last + Len(SECTION_MARKER))
    ELSE IF first # NONE
    THEN Slice(original, 0, first) \o wrapped
    ELSE original \o AppendSuffix(original) \o wrapped

\* new_content of write_wrapped_section
NewContent(original, inner_content) ==
    Spliced(original, FirstMarker(original), LastMarker(original),
            WrappedBlock(inner_content))

write_wrapped_section(fs, inner_content, io) ==
    write_hosts(fs, NewContent(read_hosts(fs), inner_content), io)

\* get_blocked_hostnames: the hosts of the lines of the section that start
\* with 0.0.0.0, in lower case
get_blocked_hostnames(fs) ==
    LET original == read_hosts(fs)
        first == FirstMarker(original)
        last == LastMarker(original)
    IN  IF first = NONE \/ last = NONE THEN {}
        ELSE LET inner == Slice(original, first + Len(SECTION_MARKER), last)
                 lines == Lines(inner)
                 parts == [k \in 1..Len(lines) |->
                              SplitWhitespace(Trim(lines[k]))]
                 counted == { k \in 1..Len(lines) :
                                /\ Trim(lines[k]) # <<>>
                                /\ ~StartsWith(Trim(lines[k]), <<HASH>>)
                                /\ Len(parts[k]) >= 2
                                /\ parts[k][1] = <<"0.0.0.0">> }
             IN  UNION { { to_lowercase(parts[k][j]) :
                             j \in 2..Len(parts[k]) } : k \in counted }

\* the Result a public method returns around a write: Ok, or the error of
\* write_hosts passed on by `?`
WriteResult(w) ==
    [ok |-> w.ok,
     err |-> IF w.ok THEN "" ELSE "Failed to write to /etc/hosts",
     fs |-> w.fs]

---------------------------------------------------------------------------
(* region.rs: the catalog.  A HashMap is a record of its entries (info)    *)
(* and the order its iterator yields the keys in (iter).                   *)

\* the entries of get_selectable_regions the model keeps: every stability
\* value, and the groups Europe, Americas and Oceania
SelectableInfo ==
    [ r \in { "Europe (London)", "Europe (Ireland)",
              "Europe (Frankfurt am Main)", "US East (N. Virginia)",
              "US East (Ohio)", "Asia Pacific (Sydney)" } |->
        CASE r = "Europe (London)" ->
                 [hosts |-> << "gamelift.eu-west-2.amazonaws.com",
                               "gamelift-ping.eu-west-2.api.aws" >>,
                  stable |-> FALSE]
          [] r = "Europe (Ireland)" ->
                 [hosts |-> << "gamelift.eu-west-1.amazonaws.com",
                               "gamelift-ping.eu-west-1.api.aws" >>,
                  stable |-> TRUE]
          [] r = "Europe (Frankfurt am Main)" ->
                 [hosts |-> << "gamelift.eu-central-1.amazonaws.com",
                               "gamelift-ping.eu-central-1.api.aws" >>,
                  stable |-> TRUE]
          [] r = "US East (N. Virginia)" ->
                 [hosts |-> << "gamelift.us-east-1.amazonaws.com",
                               "gamelift-ping.us-east-1.api.aws" >>,
                  stable |-> TRUE]
          [] r = "US East (Ohio)" ->
                 [hosts |-> << "gamelift.us-east-2.amazonaws.com",
                               "gamelift-ping.us-east-2.api.aws" >>,
                  stable |-> FALSE]
          [] r = "Asia Pacific (Sydney)" ->
                 [hosts |-> << "gamelift.ap-southeast-2.amazonaws.com",
                               "gamelift-ping.ap-southeast-2.api.aws" >>,
                  stable |-> TRUE] ]

\* the entries of get_blocked_regions the model keeps
BlockedInfo ==
    [ r \in { "Africa (Cape Town)", "China (Beijing)" } |->
        CASE r = "Africa (Cape Town)" ->
                 [hosts |-> << "gamelift.af-south-1.amazonaws.com",
                               "gamelift-ping.af-south-1.api.aws" >>,
                  stable |-> TRUE]
          [] r = "China (Beijing)" ->
                 [hosts |-> << "gamelift.cn-north-1.amazonaws.com.cn",
                               "gamelift-ping.cn-north-1.api.aws" >>,
                  stable |-> TRUE] ]

\* the orders in which a HashMap of the catalog may yield its keys
SelectableOrders ==
    { << "Europe (London)", "Europe (Ireland)", "Europe (Frankfurt am Main)",
         "US East (N. Virginia)", "US East (Ohio)",
         "Asia Pacific (Sydney)" >>,
      << "Asia Pacific (Sydney)", "US East (Ohio)", "US East (N. Virginia)",
         "Europe (Frankfurt am Main)", "Europe (Ireland)",
         "Europe (London)" >> }

BlockedOrders ==
    { << "Africa (Cape Town)", "China (Beijing)" >>,
      << "China (Beijing)", "Africa (Cape Town)" >> }

get_selectable_regions(order) == [info |-> SelectableInfo, iter |-> order]

get_blocked_regions(order) == [info |-> BlockedInfo, iter |-> order]

\* main.rs get_all_regions_map: the selectable entries, then every blocked
\* entry inserted over them; only the entries of the result are read
get_all_regions_map(selectable, blocked) ==
    [info |-> [ r \in DOMAIN selectable.info \cup DOMAIN blocked.info |->
                  IF r \in DOMAIN blocked.info THEN blocked.info[r]
                  ELSE selectable.info[r] ],
     iter |-> selectable.iter \o blocked.iter]

\* region.starts_with / region.contains on the region names of the model
NameStartsWith(region, prefix) ==
    CASE prefix = "Europe" ->
           region \in { "Europe (London)", "Europe (Ireland)",
                        "Europe (Frankfurt am Main)" }
      [] prefix = "US" ->
           region \in { "US East (N. Virginia)", "US East (Ohio)" }
      [] prefix = "Canada" -> FALSE
      [] prefix = "South America" -> FALSE

NameContains(region, part) ==
    CASE part = "Sydney" -> region \in { "Asia Pacific (Sydney)" }
      [] part = "China" -> region \in { "China (Beijing)" }

get_group_name(region) ==
    IF NameStartsWith(region, "Europe") THEN "Europe"
    ELSE IF \/ NameStartsWith(region, "US")
            \/ NameStartsWith(region, "Canada")
            \/ NameStartsWith(region, "South America") THEN "Americas"
    ELSE IF NameContains(region, "Sydney") THEN "Oceania"
    ELSE IF NameContains(region, "China") THEN "China"
    ELSE "Asia"

---------------------------------------------------------------------------
(* hosts.rs: the two policies                                              *)

\* config.discord_url
DiscordUrl == "https://discord.gg/xEMyAA8gn8"

\* (mutant) the name searched as it stands, not lowercased
ContainsPing_exact(host) ==
    host \in
        { "gamelift-ping.eu-west-2.api.aws", "gamelift-ping.eu-west-1.api.aws",
          "gamelift-ping.eu-central-1.api.aws",
          "gamelift-ping.us-east-1.api.aws",
          "gamelift-ping.us-east-2.api.aws",
          "gamelift-ping.ap-southeast-2.api.aws",
          "gamelift-ping.af-south-1.api.aws",
          "gamelift-ping.cn-north-1.api.aws" }

\* host.to_lowercase().contains("ping") on the host names of the model
ContainsPing(host) ==
    to_lowercase(<<host>>)[1] \in
        { "gamelift-ping.eu-west-2.api.aws", "gamelift-ping.eu-west-1.api.aws",
          "gamelift-ping.eu-central-1.api.aws",
          "gamelift-ping.us-east-1.api.aws",
          "gamelift-ping.us-east-2.api.aws",
          "gamelift-ping.ap-southeast-2.api.aws",
          "gamelift-ping.af-south-1.api.aws",
          "gamelift-ping.cn-north-1.api.aws" }

\* words separated by single blanks
Sentence(words) ==
    Flatten([k \in 1..Len(words) |->
                IF k < Len(words) THEN <<words[k], " ">> ELSE <<words[k]>>])

\* format!("{:9}", prefix): the prefix and blanks up to nine characters
Pad9(prefix) ==
    LET chars == IF prefix = "#" THEN 1 ELSE 7    \* "#", "0.0.0.0"
    IN  <<prefix>> \o [k \in 1..(9 - chars) |-> " "]

\* (mutant) the alternative taken without looking at its stability
AllowedSet_anyAlternative(regions, selected, merge_unstable) ==
    LET known(r) == r \in DOMAIN regions.info
        any_stable_selected ==
            \E r \in selected : known(r) /\ regions.info[r].stable
        alternatives(region) ==
            { k \in 1..Len(regions.iter) :
                get_group_name(regions.iter[k]) = get_group_name(region) }
    IN  IF merge_unstable /\ ~any_stable_selected
        THEN selected \cup
             { regions.iter[SetMin(alternatives(r))] :
                 r \in { x \in selected :
                           known(x) /\ ~regions.info[x].stable } }
        ELSE selected

\* the regions apply_gatekeep lets through: the selection, and with
\* merge_unstable and no stable region selected, for every selected unstable
\* region the first stable region of its group that regions.iter() yields
AllowedSet(regions, selected, merge_unstable) ==
    LET known(r) == r \in DOMAIN regions.info
        any_stable_selected ==
            \E r \in selected : known(r) /\ regions.info[r].stable
        alternatives(region) ==
            { k \in 1..Len(regions.iter) :
                /\ get_group_name(regions.iter[k]) = get_group_name(region)
                /\ regions.info[regions.iter[k]].stable }
    IN  IF merge_unstable /\ ~any_stable_selected
        THEN selected \cup
             { regions.iter[SetMin(alternatives(r))] :
                 r \in { x \in selected :
                           /\ known(x) /\ ~regions.info[x].stable
                           /\ alternatives(x) # {} } }
        ELSE selected

\* (mutant) the allowed regions null-routed and the others commented out
GatekeepRegionLines_inverted(region_info, allow, block_mode) ==
    Flatten([k \in 1..Len(region_info.hosts) |->
        Pad9(IF allow THEN "0.0.0.0" ELSE "#")
        \o <<" ", region_info.hosts[k], NL>>])
    \o <<NL>>

\* the lines apply_gatekeep emits for one region of the catalog
GatekeepRegionLines(region_info, allow, block_mode) ==
    Flatten([k \in 1..Len(region_info.hosts) |->
        LET host == region_info.hosts[k]
            is_ping == ContainsPing(host)
            include == CASE block_mode = "Both" -> TRUE
                         [] block_mode = "OnlyPing" -> is_ping
                         [] block_mode = "OnlyService" -> ~is_ping
            prefix == IF allow THEN "#" ELSE "0.0.0.0"
        IN  IF include THEN Pad9(prefix) \o <<" ", host, NL>> ELSE <<>>])
    \o <<NL>>

\* the content apply_gatekeep builds
GatekeepContent(regions, blocked_regions, selected, block_mode, merge_unstable) ==
    LET allowed_set == AllowedSet(regions, selected, merge_unstable)
    IN  <<"#", " ">>
        \o Sentence(<<"Edited", "by", "Make", "Your", "Choice", "(DbD",
                      "Server", "Selector)">>) \o <<NL>>
        \o <<"#", " ">>
        \o Sentence(<<"Unselected", "servers", "are", "blocked", "(Gatekeep",
                      "Mode);", "selected", "servers", "are", "commented",
                      "out.">>) \o <<NL>>
        \o <<"#", " ">>
        \o Sentence(<<"Need", "help?", "Discord:", DiscordUrl>>) \o <<NL>>
        \o <<NL>>
        \o Flatten([k \in 1..Len(regions.iter) |->
              GatekeepRegionLines(regions.info[regions.iter[k]],
                                  regions.iter[k] \in allowed_set,
                                  block_mode)])
        \o Flatten([k \in 1..Len(blocked_regions.iter) |->
              Flatten([j \in 1..Len(blocked_regions.info[
                                      blocked_regions.iter[k]].hosts) |->
                  Pad9("0.0.0.0")
                  \o <<" ",
                       blocked_regions.info[blocked_regions.iter[k]].hosts[j],
                       NL>>])
              \o <<NL>>])

\* (mutant) the empty selection let through
EmptySelection_ignored(selected) == FALSE

\* selected.is_empty()
EmptySelection(selected) == selected = {}

\* apply_gatekeep: the validation, then the section write
apply_gatekeep(fs, regions, blocked_regions, selected, block_mode, merge_unstable, io) ==
    IF EmptySelection(selected)
    THEN [ok |-> FALSE, err |-> "Please select at least one server to allow.",
          fs |-> fs]
    ELSE WriteResult(
             write_wrapped_section(
                 fs, GatekeepContent(regions, blocked_regions, selected,
                                     block_mode, merge_unstable), io))

\* the answer of resolve_hostname when the name does not resolve
Unresolved == "<unresolved>"

\* resolve_hostname: the first address the resolver dns has for the name, or
\* the error
resolve_hostname(dns, hostname) == dns[hostname]

\* (mutant) the always-blocked regions left out
RedirectContent_noBlocked(regions, blocked_regions, service_ip, ping_ip) ==
    Flatten([k \in 1..Len(regions.iter) |->
          Flatten([j \in 1..Len(regions.info[regions.iter[k]].hosts) |->
              LET host == regions.info[regions.iter[k]].hosts[j]
                  ip == IF ContainsPing(host) THEN ping_ip ELSE service_ip
              IN  <<ip, " ", host, NL>>])
          \o <<NL>>])

\* (mutant) the two resolved addresses taken for each other
RedirectContent_swapped(regions, blocked_regions, service_ip, ping_ip) ==
    Flatten([k \in 1..Len(regions.iter) |->
          Flatten([j \in 1..Len(regions.info[regions.iter[k]].hosts) |->
              LET host == regions.info[regions.iter[k]].hosts[j]
                  ip == IF ContainsPing(host) THEN service_ip ELSE ping_ip
              IN  <<ip, " ", host, NL>>])
          \o <<NL>>])
    \o Flatten([k \in 1..Len(blocked_regions.iter) |->
          Flatten([j \in 1..Len(blocked_regions.info[
                                  blocked_regions.iter[k]].hosts) |->
              <<"0.0.0.0", " ",
                blocked_regions.info[blocked_regions.iter[k]].hosts[j], NL>>])
          \o <<NL>>])

\* the content apply_universal_redirect builds
RedirectContent(regions, blocked_regions, service_ip, ping_ip) ==
    <<"#", " ">>
    \o Sentence(<<"Edited", "by", "Make", "Your", "Choice", "(DbD",
                  "Server", "Selector)">>) \o <<NL>>
    \o <<"#", " ">>
    \o Sentence(<<"Universal", "Redirect", "mode:", "redirect", "all",
                  "GameLift", "endpoints", "to", "selected", "region">>)
    \o <<NL>>
    \o <<"#", " ">>
    \o Sentence(<<"Need", "help?", "Discord:", DiscordUrl>>) \o <<NL>>
    \o <<NL>>
    \o Flatten([k \in 1..Len(regions.iter) |->
          Flatten([j \in 1..Len(regions.info[regions.iter[k]].hosts) |->
              LET host == regions.info[regions.iter[k]].hosts[j]
                  ip == IF ContainsPing(host) THEN ping_ip ELSE service_ip
              IN  <<ip, " ", host, NL>>])
          \o <<NL>>])
    \o Flatten([k \in 1..Len(blocked_regions.iter) |->
          Flatten([j \in 1..Len(blocked_regions.info[
                                  blocked_regions.iter[k]].hosts) |->
              <<"0.0.0.0", " ",
                blocked_regions.info[blocked_regions.iter[k]].hosts[j], NL>>])
          \o <<NL>>])

\* apply_universal_redirect: the region looked up, its service and ping
\* hosts resolved, then the section write
apply_universal_redirect(fs, regions, blocked_regions, selected_region, dns, io) ==
    IF selected_region \notin DOMAIN regions.info
    THEN [ok |-> FALSE, err |-> "Selected region not found", fs |-> fs]
    ELSE LET region_info == regions.info[selected_region]
             service_host == region_info.hosts[1]
             ping_host == IF Len(region_info.hosts) > 1
                          THEN region_info.hosts[2]
                          ELSE region_info.hosts[1]
             service_ip == resolve_hostname(dns, service_host)
             ping_ip == resolve_hostname(dns, ping_host)
         IN  IF service_ip = Unresolved \/ ping_ip = Unresolved
             THEN [ok |-> FALSE, err |-> "Failed to resolve hostname",
                   fs |-> fs]
             ELSE WriteResult(
                      write_wrapped_section(
                          fs, RedirectContent(regions, blocked_regions,
                                              service_ip, ping_ip), io))

\* revert: the section write with empty content
revert(fs, io) == WriteResult(write_wrapped_section(fs, <<>>, io))

\* the text restore_default writes
DefaultHosts ==
    <<"#", " ", "Static", " ", "table", " ", "lookup", " ", "for", " ",
      "hostnames.", NL,
      "#", " ", "See", " ", "hosts(5)", " ", "for", " ", "details.", NL,
      "127.0.0.1", " ", " ", " ", " ", " ", " ", " ", " ", "localhost", NL,
      "::1", " ", " ", " ", " ", " ", " ", " ", " ", " ", " ", " ", " ", " ",
      " ", "localhost", NL>>

restore_default(fs, io) == WriteResult(write_hosts(fs, DefaultHosts, io))

---------------------------------------------------------------------------
(* hosts.rs: conflicts with entries the file holds outside the section     *)

\* get_all_managed_hostnames: the lower-cased host names of the regions
get_all_managed_hostnames(regions) ==
    UNION { { to_lowercase(<<regions.info[r].hosts[k]>>) :
                k \in 1..Len(regions.info[r].hosts) } :
            r \in DOMAIN regions.info }

\* (mutant) the whole document, the managed section included
OutsideContent_whole(original) == original

\* the match (first, last) of detect_conflicting_entries
Outside(original, first, last) ==
    IF first # NONE /\ last # NONE
    THEN Slice(original, 0, first)
         \o SliceFrom(original, last + Len(SECTION_MARKER))
    ELSE IF first # NONE
    THEN Slice(original, 0, first)
    ELSE original

\* outside_content of detect_conflicting_entries
OutsideContent(original) ==
    Outside(original, FirstMarker(original), LastMarker(original))

\* whether the loop of detect_conflicting_entries takes a trimmed line for a
\* conflict
IsConflictLine(trimmed, managed_hosts) ==
    /\ trimmed # <<>>
    /\ ~StartsWith(trimmed, <<"#">>)
    /\ LET parts == SplitWhitespace(trimmed)
       IN  Len(parts) >= 2 /\ to_lowercase(parts[2]) \in managed_hosts

\* the elements of a sequence at the indices of a set, in their order
Picked(seq, indices) ==
    [k \in 1..Cardinality(indices) |->
        seq[CHOOSE x \in indices :
                Cardinality({ y \in indices : y < x }) = k - 1]]

\* the loop of detect_conflicting_entries over the trimmed lines: a line is
\* pushed when it is a conflict and conflicts does not hold it yet
Conflicts(trimmed, managed_hosts) ==
    Picked(trimmed,
           { k \in 1..Len(trimmed) :
               /\ IsConflictLine(trimmed[k], managed_hosts)
               /\ \A j \in 1..(k - 1) : trimmed[j] # trimmed[k] })

\* line.trim() of every line of a text
TrimmedLines(text) == [k \in 1..Len(Lines(text)) |-> Trim(Lines(text)[k])]

detect_conflicting_entries(fs, regions) ==
    Conflicts(TrimmedLines(OutsideContent(read_hosts(fs))),
              get_all_managed_hostnames(regions))

\* the filter of clear_conflicting_entries
KeepsLine(line, conflict_set) == Trim(line) \notin conflict_set

\* cleaned of clear_conflicting_entries
Cleaned(original, lines, conflict_set) ==
    JoinLines(Picked(lines, { k \in 1..Len(lines) :
                                KeepsLine(lines[k], conflict_set) }))
    \o (IF EndsWith(original, <<NL>>) THEN <<NL>> ELSE <<>>)

clear_conflicting_entries(fs, conflicts, io) ==
    WriteResult(
        write_hosts(
            fs,
            Cleaned(read_hosts(fs), Lines(read_hosts(fs)),
                    { Trim(conflicts[k]) : k \in 1..Len(conflicts) }),
            io))

---------------------------------------------------------------------------
(* aws_ranges.rs: the CIDR table.  A u32 address is the sequence of its    *)
(* four octets, most significant first.  The text of an address or of a    *)
(* CIDR block is a sequence of units: a run of decimal digits, ".", "/",   *)
(* "::" or a word.                                                         *)

\* Option<T>
None == <<>>
Some(x) == <<x>>

\* the value of the runs of decimal digits of the model
Decimal ==
    [ t \in { "0", "1", "2", "3", "8", "10", "11", "16", "32", "33", "255",
              "256" } |->
        CASE t = "0" -> 0 [] t = "1" -> 1 [] t = "2" -> 2 [] t = "3" -> 3
          [] t = "8" -> 8 [] t = "10" -> 10 [] t = "11" -> 11
          [] t = "16" -> 16 [] t = "32" -> 32 [] t = "33" -> 33
          [] t = "255" -> 255 [] t = "256" -> 256 ]

\* str::parse::<u8>: a single run of digits whose value fits eight bits
parse_u8(text) ==
    IF Len(text) = 1 /\ text[1] \in DOMAIN Decimal /\ Decimal[text[1]] <= 255
    THEN Some(Decimal[text[1]])
    ELSE None

\* str::parse::<Ipv4Addr>: four octets separated by "."
parse_Ipv4Addr(text) ==
    IF /\ Len(text) = 7
       /\ \A k \in {2, 4, 6} : text[k] = "."
       /\ \A k \in {1, 3, 5, 7} : parse_u8(<<text[k]>>) # None
    THEN Some([k \in 1..4 |-> Decimal[text[2 * k - 1]]])
    ELSE None

\* str::parse::<IpAddr>: an IPv4 literal, an IPv6 literal ("::", "::" and a
\* run of digits), or an error
parse_IpAddr(text) ==
    IF parse_Ipv4Addr(text) # None
    THEN Some([v |-> "V4", addr |-> parse_Ipv4Addr(text)[1]])
    ELSE IF /\ Len(text) \in {1, 2}
            /\ text[1] = "::"
            /\ Len(text) = 2 => text[2] \in DOMAIN Decimal
    THEN Some([v |-> "V6", addr |-> text])
    ELSE None

\* cidr.split('/'): the pieces between the "/" units
SplitSlash(text) ==
    LET cuts == { i \in 1..Len(text) : text[i] = "/" }
        edges == Ascending({0} \cup cuts \cup {Len(text) + 1})
    IN  [k \in 1..(Cardinality(cuts) + 1) |->
            SubSeq(text, edges[k] + 1, edges[k + 1] - 1)]

\* bit i of an octet
Bit(x, i) == (x \div (2 ^ i)) % 2

RECURSIVE AndBits(_, _, _)
\* x & y on octets, from bit i upwards
AndBits(x, y, i) ==
    IF i = 8 THEN 0
    ELSE (2 ^ i) * Bit(x, i) * Bit(y, i) + AndBits(x, y, i + 1)

\* a & b on u32
And32(a, b) == [k \in 1..4 |-> AndBits(a[k], b[k], 0)]

\* u32::MAX << n for n in 0..31: the 32 - n high bits set
ShlMax(n) ==
    [k \in 1..4 |->
        LET high == (32 - n) - 8 * (k - 1)
            kept == IF high < 0 THEN 0 ELSE IF high > 8 THEN 8 ELSE high
        IN  256 - 2 ^ (8 - kept)]

\* (mutant) u32::MAX shifted by prefix_len in place of 32 - prefix_len
MaskOf_shifted(prefix_len) ==
    IF prefix_len = 0 THEN <<0, 0, 0, 0>> ELSE ShlMax(prefix_len)

\* mask of parse_ipv4_cidr
MaskOf(prefix_len) ==
    IF prefix_len = 0 THEN <<0, 0, 0, 0>> ELSE ShlMax(32 - prefix_len)

\* parse_ipv4_cidr: (network, mask, prefix_len), or None
parse_ipv4_cidr(cidr) ==
    LET parts == SplitSlash(cidr) IN
    IF Len(parts) # 2 THEN None
    ELSE IF parse_Ipv4Addr(parts[1]) = None THEN None
    ELSE IF parse_u8(parts[2]) = None THEN None
    ELSE IF parse_u8(parts[2])[1] > 32 THEN None
    ELSE Some([network |-> And32(parse_Ipv4Addr(parts[1])[1],
                                 MaskOf(parse_u8(parts[2])[1])),
               mask |-> MaskOf(parse_u8(parts[2])[1]),
               prefix_len |-> parse_u8(parts[2])[1]])

\* refresh, the loop over the records of the feed: whether a record gives an
\* entry
GivesEntry(p) ==
    /\ p.ip_prefix # None
    /\ p.ip_prefix[1] # <<>>
    /\ parse_ipv4_cidr(p.ip_prefix[1]) # None

\* refresh: the AwsCidr pushed for a record
AwsCidr(p) ==
    [network |-> parse_ipv4_cidr(p.ip_prefix[1])[1].network,
     mask |-> parse_ipv4_cidr(p.ip_prefix[1])[1].mask,
     prefix_len |-> parse_ipv4_cidr(p.ip_prefix[1])[1].prefix_len,
     region |-> IF p.region = None THEN "" ELSE p.region[1]]

\* refresh: list, built from the decoded feed
ParsedList(resp) ==
    IF resp.prefixes = None THEN <<>>
    ELSE LET prefixes == resp.prefixes[1]
             giving == Ascending({ k \in 1..Len(prefixes) :
                                     GivesEntry(prefixes[k]) })
         IN  [j \in 1..Len(giving) |-> AwsCidr(prefixes[giving[j]])]

\* get_pretty_region_name
get_pretty_region_name(region_code) ==
    CASE region_code = "us-east-1" -> "US East (N. Virginia)"
      [] region_code = "us-east-2" -> "US East (Ohio)"
      [] region_code = "us-west-1" -> "US West (N. California)"
      [] region_code = "us-west-2" -> "US West (Oregon)"
      [] region_code = "ca-central-1" -> "Canada (Central)"
      [] region_code = "sa-east-1" -> "South America (São Paulo)"
      [] region_code = "eu-west-1" -> "Europe (Ireland)"
      [] region_code = "eu-west-2" -> "Europe (London)"
      [] region_code = "eu-central-1" -> "Europe (Frankfurt am Main)"
      [] region_code = "eu-north-1" -> "Europe (Stockholm)"
      [] region_code = "eu-west-3" -> "Europe (Paris)"
      [] region_code = "eu-south-1" -> "Europe (Milan)"
      [] region_code = "ap-northeast-1" -> "Asia Pacific (Tokyo)"
      [] region_code = "ap-northeast-2" -> "Asia Pacific (Seoul)"
      [] region_code = "ap-south-1" -> "Asia Pacific (Mumbai)"
      [] region_code = "ap-southeast-1" -> "Asia Pacific (Singapore)"
      [] region_code = "ap-southeast-2" -> "Asia Pacific (Sydney)"
      [] region_code = "ap-east-1" -> "Asia Pacific (Hong Kong)"
      [] region_code = "af-south-1" -> "Africa (Cape Town)"
      [] region_code = "me-south-1" -> "Middle East (Bahrain)"
      [] region_code = "ap-northeast-3" -> "Asia Pacific (Osaka)"
      [] OTHER -> region_code

\* (mutant) an entry of equal prefix length taken over the one found before
MoreSpecific_orEqual(cidr, b) == cidr.prefix_len >= b.prefix_len

\* get_region: cidr.prefix_len > b.prefix_len
MoreSpecific(cidr, b) == cidr.prefix_len > b.prefix_len

RECURSIVE BestFrom(_, _, _, _)
\* get_region, the loop over the table from entry k on, best being the
\* entry found so far
BestFrom(table, ip_val, k, best) ==
    IF k > Len(table) THEN best
    ELSE BestFrom(table, ip_val, k + 1,
                  IF /\ And32(ip_val, table[k].mask) = table[k].network
                     /\ (best = None \/ MoreSpecific(table[k], best[1]))
                  THEN Some(table[k])
                  ELSE best)

\* get_region after a refresh that returned Ok: the argument parsed, the
\* table searched, the region code rendered
Classified(table, ip_str) ==
    IF parse_IpAddr(ip_str) = None THEN None
    ELSE IF parse_IpAddr(ip_str)[1].v = "V6" THEN None
    ELSE IF BestFrom(table, parse_IpAddr(ip_str)[1].addr, 1, None) = None
    THEN None
    ELSE Some(get_pretty_region_name(
                  BestFrom(table, parse_IpAddr(ip_str)[1].addr, 1,
                           None)[1].region))

\* (mutant) the error of the refresh dropped and the table searched as it is
RefreshFailed_ignored(table, ip_str) == Classified(table, ip_str)

\* get_region: self.refresh().await.ok()? when the refresh returned Err
RefreshFailed(table, ip_str) == None

\* fetch_lock held by no one
NoHolder == 0

\* (mutant) the list added to the table in place of replacing it
Published_appended(table, list) == table \o list

\* refresh: *cidrs = list
Published(table, list) == list

\* (mutant) the gate kept by a refresh that returns
Released_kept(lock) == lock

\* refresh returns, Ok or Err: _guard is dropped
Released(lock) == NoHolder

\* (mutant) the table taken without waiting for the call that scans it
TableFree_always(all) == TRUE

\* cidrs.lock() completes when no call holds the table: the only holder
\* over more than one step is a call in its scan
TableFree(all) == \A c \in DOMAIN all : all[c].pc # "scan"

\* (mutant) the gate taken without waiting for its holder
GateFree_always(lock) == TRUE

\* fetch_lock.lock().await completes when the gate is held by no one
GateFree(lock) == lock = NoHolder

\* the number of get_region calls that may run side by side
MaxCallers == 2

Callers == 1..MaxCallers

\* a get_region call not made yet
NotCalled ==
    [pc |-> "idle", ip_str |-> <<>>, waited |-> FALSE, fetches |-> 0,
     refreshed |-> FALSE, feed |-> None, best |-> None, result |-> None,
     table |-> <<>>]

\* AwsIpService::new, no call made
AwsNew ==
    /\ cidrs = <<>>
    /\ fetch_lock = NoHolder
    /\ calls = [c \in Callers |-> NotCalled]

---------------------------------------------------------------------------
(* main.rs: the application state and the handlers of the main window      *)

\* the values of UserSettings the handlers read
SettingsValues ==
    [apply_mode : {"Gatekeep", "UniversalRedirect"},
     block_mode : {"Both", "OnlyPing", "OnlyService"},
     merge_unstable : BOOLEAN]

\* the values "Revert to Default" of the settings dialog sets
DefaultSettings ==
    [apply_mode |-> "Gatekeep", block_mode |-> "Both",
     merge_unstable |-> TRUE]

\* no modal dialog is open
NoDialog == [kind |-> "none", selected |-> {}, settings |-> DefaultSettings]

\* the application as build_ui leaves it, no dialog open: the catalog in
\* one iteration order, nothing selected, the settings as loaded
AppStarted ==
    /\ app_regions = get_selectable_regions(CHOOSE o \in SelectableOrders : TRUE)
    /\ app_blocked = get_blocked_regions(CHOOSE o \in BlockedOrders : TRUE)
    /\ selected_regions = {}
    /\ settings \in SettingsValues
    /\ dialog = NoDialog
    /\ AwsNew

\* the application at rest with the default settings, for the checks of
\* single functions
AppIdle == AppStarted /\ settings = DefaultSettings

\* the outcomes of fs::copy and fs::write in one write_hosts
IoOutcomes == [backup_ok : BOOLEAN, write_ok : BOOLEAN]

\* the names the resolver is asked for: the hosts of the selectable regions
CatalogHosts ==
    UNION { { SelectableInfo[r].hosts[k] :
                k \in 1..Len(SelectableInfo[r].hosts) } :
            r \in DOMAIN SelectableInfo }

\* a resolver: what resolve_hostname answers for each name; service and ping
\* are its answers for the two hosts of Europe (London)
ResolverTable(service, ping) ==
    [ h \in CatalogHosts |->
        IF h = "gamelift.eu-west-2.amazonaws.com" THEN service
        ELSE IF h = "gamelift-ping.eu-west-2.api.aws" THEN ping
        ELSE IF ContainsPing(h) THEN "6.6.6.6"
        ELSE "5.5.5.5" ]

\* the resolvers the policies are run with: each host of Europe (London)
\* resolving or not, every other host resolving
DnsOutcomes ==
    { ResolverTable(service, ping) :
        service \in {"3.3.3.3", Unresolved}, ping \in {"4.4.4.4", Unresolved} }

\* the outcomes of write_hosts the handlers are run with: the backup made,
\* the write done or failing
WriteOutcomes ==
    { [backup_ok |-> TRUE, write_ok |-> TRUE],
      [backup_ok |-> TRUE, write_ok |-> FALSE] }

\* the answers of resolve_hostname a handler is run with; Gatekeep resolves
\* no name
ResolverAnswers(apply_mode) ==
    IF apply_mode = "UniversalRedirect" THEN DnsOutcomes
    ELSE { ResolverTable("3.3.3.3", "4.4.4.4") }

Fs == [hosts |-> hosts, backup |-> backup, flushes |-> flushes]

\* the file system after a call
SetFs(fs) ==
    /\ hosts' = fs.hosts
    /\ backup' = fs.backup
    /\ flushes' = fs.flushes

\* an entry of the event trail of an operator action: what happened, and
\* whether it changed the content of the hosts file
Event(op, note, changed) == [op |-> op, note |-> note, changed |-> changed]

\* the first entry of the trail: the button clicked and the content of the
\* hosts file at that moment
Click(button, fs) == [op |-> "click", note |-> button, start |-> fs.hosts]

\* the call of a HostsManager method that writes, and the dialog the handler
\* shows for its result
Called(method, fs, result, success) ==
    << Event(method, result.ok, fs.hosts # result.fs.hosts),
       IF result.ok THEN Event("info", success, FALSE)
       ELSE Event("error", result.err, FALSE) >>

\* the message apply_hosts_changes shows for a selection of the wrong size
OnlyOneServer ==
    "Please select only one server when using Universal Redirect mode."

\* the match on result of apply_hosts_changes
Applied(fs, result) ==
    [fs |-> result.fs, events |-> Called("apply", fs, result, "Success")]

\* apply_hosts_changes: the file system it leaves and the events it adds
apply_hosts_changes(fs, selected, apply_mode, block_mode, merge_unstable, dns, io) ==
    IF apply_mode = "Gatekeep"
    THEN Applied(fs, apply_gatekeep(fs, app_regions, app_blocked, selected,
                                    block_mode, merge_unstable, io))
    ELSE IF Cardinality(selected) # 1
    THEN [fs |-> fs, events |-> << Event("error", OnlyOneServer, FALSE) >>]
    ELSE Applied(fs, apply_universal_redirect(
                         fs, app_regions, app_blocked,
                         CHOOSE region \in selected : TRUE, dns, io))

\* (mutant) the apply goes on whatever the detection found
ShowsConflictDialog_never(conflicts) == FALSE

\* Ok(conflicts) if !conflicts.is_empty()
ShowsConflictDialog(conflicts) == conflicts # <<>>

\* the number of successful writes of the hosts file after which the
\* operator starts no further action
MaxWrites == 1

\* the rows of the region list the operator toggles
ToggleRows == { "Europe (London)", "Europe (Ireland)" }

\* the documents the application may find at start: no conflict; a conflict
\* line; a conflict line and a managed section
StartDocs ==
    { <<"127.0.0.1", " ", "localhost", NL>>,
      <<"127.0.0.1", " ", "localhost", NL,
        "1.2.3.4", " ", "gamelift.eu-west-2.amazonaws.com", NL>>,
      <<"1.2.3.4", " ", "gamelift.eu-west-2.amazonaws.com", NL>>
      \o SECTION_MARKER
      \o <<NL, "0.0.0.0", " ", "gamelift.eu-west-1.amazonaws.com", NL>>
      \o SECTION_MARKER \o <<NL>> }

\* a handler returns: the file system and the trail it leaves
Returns(fs, trail) == SetFs(fs) /\ log' = trail

\* the check-box toggle of a region row
Toggle ==
    /\ dialog.kind = "none"
    /\ flushes < MaxWrites
    /\ \E region_name \in ToggleRows :
         selected_regions' =
             IF region_name \notin selected_regions
             THEN selected_regions \cup {region_name}
             ELSE selected_regions \ {region_name}
    /\ UNCHANGED <<fileVars, awsVars, app_regions, app_blocked, settings,
                   dialog, log>>

\* handle_apply_click once the detection has answered
ApplyClicked(conflicts, applied) ==
    IF ShowsConflictDialog(conflicts)
    THEN /\ dialog' = [kind |-> "conflict", selected |-> selected_regions,
                       settings |-> settings]
         /\ log' = << Click("apply", Fs), Event("detect", conflicts, FALSE) >>
         /\ UNCHANGED fileVars
    ELSE /\ Returns(applied.fs,
                    << Click("apply", Fs), Event("detect", conflicts, FALSE) >>
                    \o applied.events)
         /\ UNCHANGED dialog

\* handle_apply_click
HandleApplyClick ==
    /\ dialog.kind = "none"
    /\ flushes < MaxWrites
    /\ \E io \in WriteOutcomes, dns \in ResolverAnswers(settings.apply_mode) :
         ApplyClicked(
             detect_conflicting_entries(
                 Fs, get_all_regions_map(app_regions, app_blocked)),
             apply_hosts_changes(Fs, selected_regions, settings.apply_mode,
                                 settings.block_mode, settings.merge_unstable,
                                 dns, io))
    /\ UNCHANGED <<awsVars, app_regions, app_blocked, selected_regions,
                   settings>>

\* the conflict dialog closed or answered with Cancel
ConflictCancel ==
    /\ dialog.kind = "conflict"
    /\ dialog' = NoDialog
    /\ log' = Append(log, Event("answer", "Cancel", FALSE))
    /\ UNCHANGED <<fileVars, awsVars, app_regions, app_blocked,
                   selected_regions, settings>>

\* the conflict dialog answered with Continue, "Apply selection without
\* clearing out conflicts" chosen: the confirmation dialog opens
ConflictKeep ==
    /\ dialog.kind = "conflict"
    /\ dialog' = [dialog EXCEPT !.kind = "confirm"]
    /\ log' = Append(log, Event("answer", "keep", FALSE))
    /\ UNCHANGED <<fileVars, awsVars, app_regions, app_blocked,
                   selected_regions, settings>>

\* confirm_response == ResponseType::Yes
ConfirmProceeds(confirm_response) == confirm_response = "Yes"

\* the closure of the confirmation dialog
Confirmed(confirm_response, applied) ==
    IF ConfirmProceeds(confirm_response)
    THEN Returns(applied.fs,
                 Append(log, Event("confirm", confirm_response, FALSE))
                 \o applied.events)
    ELSE /\ log' = Append(log, Event("confirm", confirm_response, FALSE))
         /\ UNCHANGED fileVars

\* the confirmation dialog answered
ConfirmResponse ==
    /\ dialog.kind = "confirm"
    /\ \E confirm_response \in {"Yes", "No"}, io \in WriteOutcomes,
          dns \in ResolverAnswers(dialog.settings.apply_mode) :
         Confirmed(confirm_response,
                   apply_hosts_changes(
                       Fs, dialog.selected, dialog.settings.apply_mode,
                       dialog.settings.block_mode,
                       dialog.settings.merge_unstable, dns, io))
    /\ dialog' = NoDialog
    /\ UNCHANGED <<awsVars, app_regions, app_blocked, selected_regions,
                   settings>>

\* the clear branch once clear_conflicting_entries has returned
Cleared(conflicts, cleared, applied) ==
    IF ~cleared.ok
    THEN Returns(cleared.fs,
                 log \o << Event("answer", "clear", FALSE),
                           Event("detect", conflicts, FALSE),
                           Event("clear", FALSE,
                                 hosts # cleared.fs.hosts),
                           Event("error",
                                 "Failed to clear conflicting entries",
                                 FALSE) >>)
    ELSE Returns(applied.fs,
                 log \o << Event("answer", "clear", FALSE),
                           Event("detect", conflicts, FALSE),
                           Event("clear", TRUE, hosts # cleared.fs.hosts) >>
                     \o applied.events)

\* the clear branch once the detection has answered
ClearChosen(conflicts, cleared, io, dns) ==
    Cleared(conflicts, cleared,
            apply_hosts_changes(cleared.fs, dialog.selected,
                                dialog.settings.apply_mode,
                                dialog.settings.block_mode,
                                dialog.settings.merge_unstable, dns, io))

\* the conflict dialog answered with Continue, "Clear out conflicts, and
\* apply selection" chosen
ConflictClear ==
    /\ dialog.kind = "conflict"
    /\ \E io_clear \in WriteOutcomes, io \in WriteOutcomes,
          dns \in ResolverAnswers(dialog.settings.apply_mode) :
         (LET conflicts ==
                  detect_conflicting_entries(
                      Fs, get_all_regions_map(app_regions, app_blocked))
          IN  ClearChosen(conflicts,
                          clear_conflicting_entries(Fs, conflicts, io_clear),
                          io, dns))
    /\ dialog' = NoDialog
    /\ UNCHANGED <<awsVars, app_regions, app_blocked, selected_regions,
                   settings>>

\* the match on the result of revert / restore_default
Rewritten(method, result, success, trail) ==
    Returns(result.fs, trail \o Called(method, Fs, result, success))

\* handle_revert_click
HandleRevertClick ==
    /\ dialog.kind = "none"
    /\ flushes < MaxWrites
    /\ \E io \in WriteOutcomes :
         Rewritten("revert", revert(Fs, io), "Reverted",
                   << Click("revert", Fs) >>)
    /\ UNCHANGED <<appVars, awsVars>>

\* reset_hosts_action: the warning dialog opens
ResetHostsAction ==
    /\ dialog.kind = "none"
    /\ flushes < MaxWrites
    /\ dialog' = [NoDialog EXCEPT !.kind = "reset"]
    /\ log' = << Click("reset", Fs) >>
    /\ UNCHANGED <<fileVars, awsVars, app_regions, app_blocked,
                   selected_regions, settings>>

\* the warning dialog of reset_hosts_action answered
ResetResponse ==
    /\ dialog.kind = "reset"
    /\ \E response \in {"Yes", "No"}, io \in WriteOutcomes :
         IF response = "Yes"
         THEN Rewritten("restore_default", restore_default(Fs, io),
                        "Success", log)
         ELSE /\ log' = Append(log, Event("answer", "No", FALSE))
              /\ UNCHANGED fileVars
    /\ dialog' = NoDialog
    /\ UNCHANGED <<awsVars, app_regions, app_blocked, selected_regions,
                   settings>>

Init ==
    /\ hosts \in StartDocs
    /\ backup = NoFile
    /\ flushes = 0
    /\ AppStarted
    /\ log = <<>>

Next ==
    \/ Toggle
    \/ HandleApplyClick
    \/ ConflictCancel
    \/ ConflictKeep
    \/ ConfirmResponse
    \/ ConflictClear
    \/ HandleRevertClick
    \/ ResetHostsAction
    \/ ResetResponse

Spec == Init /\ [][Next]_vars

---------------------------------------------------------------------------
(* Section writes on bounded documents                                     *)

\* the pieces a document of the section study is made of
MaxSectionPieces == 4
\* the number of section writes in a row
MaxSectionOps == 2

SectionPieces ==
    { <<"127.0.0.1">>,
      <<NL>>,
      SECTION_MARKER,
      SubSeq(SECTION_MARKER, 1, 5),
      SubSeq(SECTION_MARKER, 6, Len(SECTION_MARKER)) }

SectionDocs ==
    { Flatten(ps) :
        ps \in UNION { [1..n -> SectionPieces] : n \in 0..MaxSectionPieces } }

\* inner_content as the callers pass it: empty (revert), a block ending in a
\* line break (apply_gatekeep, apply_universal_redirect), one that does not
InnerContents ==
    { <<>>,
      <<"0.0.0.0", " ", "gamelift.eu-west-2.amazonaws.com", NL>>,
      <<"#", " ", "gamelift.eu-west-1.amazonaws.com">> }

IoOk == [backup_ok |-> TRUE, write_ok |-> TRUE]

InitSection ==
    /\ hosts \in SectionDocs
    /\ backup = NoFile
    /\ flushes = 0
    /\ AppIdle
    /\ log = <<>>

\* one call of write_wrapped_section(inner_content), every file operation
\* succeeding
SectionWrite ==
    /\ Len(log) < MaxSectionOps
    /\ \E inner \in InnerContents :
         LET r == write_wrapped_section(Fs, inner, IoOk) IN
         /\ hosts' = r.fs.hosts
         /\ backup' = r.fs.backup
         /\ flushes' = r.fs.flushes
         /\ log' = Append(log, [op |-> "write", inner |-> inner,
                                before |-> hosts, after |-> r.fs.hosts])
    /\ UNCHANGED <<appVars, awsVars>>

NextSection == SectionWrite

SpecSection == InitSection /\ [][NextSection]_vars

\* the offsets of the sentinel in a text
Sentinels(text) == Occurrences(text, SECTION_MARKER)

\* C1: writing the section twice in a row with the same content leaves the
\* file, after the second write, as it was after the first.
C1_Idempotent ==
    \A i \in 1..(Len(log) - 1) :
        log[i].inner = log[i + 1].inner => log[i + 1].after = log[i].after

\* C2: on a document without sentinel, a write of non-empty content followed
\* by a revert gives back the document, byte for byte, without sentinel.
C2_RevertLaw ==
    \A i \in 1..(Len(log) - 1) :
        ( /\ Sentinels(log[i].before) = {}
          /\ log[i].inner # <<>>
          /\ log[i + 1].inner = <<>> )
        => /\ log[i + 1].after = log[i].before
           /\ Sentinels(log[i + 1].after) = {}

\* the sentinel-wrapped block the claims speak of
SentinelBlock(inner) ==
    SECTION_MARKER \o <<NL>> \o inner
    \o (IF inner[Len(inner)] = NL THEN <<>> ELSE <<NL>>)
    \o SECTION_MARKER \o <<NL>>

\* C3: with two or more sentinels in the document, a section write gives
\* (text before the first sentinel) ++ block ++ (text after the end of the
\* second sentinel), the block being empty when the content is empty.
C3_TwoSentinelFrame ==
    \A i \in 1..Len(log) :
        LET d == log[i].before
            occ == Sentinels(d)
        IN  Cardinality(occ) >= 2 =>
            LET o1 == SetMin(occ)
                o2 == SetMin(occ \ {o1})
                block == IF log[i].inner = <<>> THEN <<>>
                         ELSE SentinelBlock(log[i].inner)
            IN  log[i].after =
                    SubSeq(d, 1, o1) \o block
                    \o SubSeq(d, o2 + Len(SECTION_MARKER) + 1, Len(d))

\* a write of non-empty content, and a revert, on a document with a third
\* sentinel
C3_Witness ==
    /\ \E i \in 1..Len(log) :
         Cardinality(Sentinels(log[i].before)) >= 3 /\ log[i].inner # <<>>
    /\ \E i \in 1..Len(log) :
         Cardinality(Sentinels(log[i].before)) >= 3 /\ log[i].inner = <<>>

\* C4: on a document without sentinel, a write of non-empty content gives the
\* document, a blank-line separator and one wrapped block, and nothing else;
\* the result holds exactly two sentinels.
C4_AppendToUnowned ==
    \A i \in 1..Len(log) :
        (Sentinels(log[i].before) = {} /\ log[i].inner # <<>>) =>
            /\ \E sep \in {<<NL>>, <<NL, NL>>} :
                 /\ EndsWith(log[i].before \o sep, <<NL, NL>>)
                 /\ log[i].after =
                        log[i].before \o sep \o SentinelBlock(log[i].inner)
            /\ Cardinality(Sentinels(log[i].after)) = 2

\* an append to a non-empty document that does not end with a line break
C4_Witness ==
    \E i \in 1..Len(log) :
        /\ Sentinels(log[i].before) = {} /\ log[i].inner # <<>>
        /\ log[i].before # <<>> /\ ~EndsWith(log[i].before, <<NL>>)
        /\ Cardinality(Sentinels(log[i].after)) = 2

\* C5: when the initial document holds three or more sentinels, the text
\* that followed its second sentinel is still in the file, unmodified, after
\* every sequence of section writes.
C5_UnownedTailKept ==
    (Len(log) >= 1 /\ Cardinality(Sentinels(log[1].before)) >= 3) =>
        LET d == log[1].before
            o1 == SetMin(Sentinels(d))
            o2 == SetMin(Sentinels(d) \ {o1})
            tail == SubSeq(d, o2 + Len(SECTION_MARKER) + 1, Len(d))
        IN  Occurrences(hosts, tail) # {}

\* C18: with exactly one sentinel in the document, a section write gives
\* (text before the sentinel) ++ block for non-empty content, a document
\* of exactly two sentinels, and (text before the sentinel) alone for a
\* revert, a document without sentinel; the text before the sentinel is there
\* unchanged.
C18_SingleSentinelTail ==
    \A i \in 1..Len(log) :
        LET d == log[i].before IN
        Cardinality(Sentinels(d)) = 1 =>
            LET o == SetMin(Sentinels(d))
                block == IF log[i].inner = <<>> THEN <<>>
                         ELSE SentinelBlock(log[i].inner)
            IN  /\ log[i].after = SubSeq(d, 1, o) \o block
                /\ SubSeq(log[i].after, 1, o) = SubSeq(d, 1, o)
                /\ Cardinality(Sentinels(log[i].after)) =
                       IF log[i].inner = <<>> THEN 0 ELSE 2

\* a write of non-empty content on a document with text before and after
\* its only sentinel
C18_Witness ==
    \E i \in 1..Len(log) :
        /\ Cardinality(Sentinels(log[i].before)) = 1
        /\ SetMin(Sentinels(log[i].before)) > 0
        /\ SetMin(Sentinels(log[i].before)) + Len(SECTION_MARKER)
               < Len(log[i].before)
        /\ log[i].inner # <<>>
        /\ Cardinality(Sentinels(log[i].after)) = 2

\* C27: a revert on a document without sentinel leaves the file as it was,
\* byte for byte, and so does every further revert.
C27_RevertNoop ==
    \A i \in 1..Len(log) :
        (log[i].inner = <<>> /\ Sentinels(log[i].before) = {}) =>
            log[i].after = log[i].before

---------------------------------------------------------------------------
(* Conflict detection and clearing on bounded documents                    *)

\* the number of pieces a document of the conflict study is made of
MaxConflictPieces == 4
\* the number of detect / clear calls in a row
MaxConflictOps == 3

\* the pieces: a conflict line; one with white space around it, a tab, a
\* capitalised always-blocked host and a third token; lines that are no
\* conflict (a comment, a managed name as first token, a single token, a
\* blank line); a conflict without line break; the sentinel line
ConflictPieces ==
    { <<"1.2.3.4", " ", "gamelift.eu-west-2.amazonaws.com", NL>>,
      <<" ", "5.6.7.8", "\t", "Gamelift-Ping.AF-South-1.api.aws", " ",
        "extra", " ", NL>>,
      <<"#", "1.2.3.4", " ", "gamelift.eu-west-2.amazonaws.com", NL,
        "gamelift.eu-west-2.amazonaws.com", " ", "localhost", NL,
        "localhost", NL,
        NL>>,
      <<"1.2.3.4", " ", "gamelift.eu-west-2.amazonaws.com">>,
      SECTION_MARKER \o <<NL>> }

ConflictDocs ==
    { Flatten(ps) :
        ps \in UNION { [1..n -> ConflictPieces] : n \in 0..MaxConflictPieces } }

\* lists handed to clear_conflicting_entries that no detection produced: an
\* element with white space around it, and the sentinel line
ClearArguments ==
    { << <<" ", "localhost", " ">>, SECTION_MARKER >> }

AllRegions == get_all_regions_map(app_regions, app_blocked)

InitConflict ==
    /\ hosts \in ConflictDocs
    /\ backup = NoFile
    /\ flushes = 0
    /\ AppIdle
    /\ log = <<>>

\* detect_conflicting_entries, on a fresh document or after a clearing
Detect ==
    /\ Len(log) < MaxConflictOps
    /\ IF log = <<>> THEN TRUE ELSE log[Len(log)].op = "clear"
    /\ log' = Append(log, [op |-> "detect", before |-> hosts,
                           after |-> hosts,
                           found |-> detect_conflicting_entries(Fs,
                                                                AllRegions)])
    /\ UNCHANGED <<fileVars, appVars, awsVars>>

\* clear_conflicting_entries on what the detection just found, as
\* show_conflict_dialog calls it
ClearDetected ==
    /\ Len(log) < MaxConflictOps
    /\ IF log = <<>> THEN FALSE ELSE log[Len(log)].op = "detect"
    /\ LET r == clear_conflicting_entries(Fs, log[Len(log)].found, IoOk) IN
       /\ hosts' = r.fs.hosts
       /\ backup' = r.fs.backup
       /\ flushes' = r.fs.flushes
       /\ log' = Append(log, [op |-> "clear", arg |-> log[Len(log)].found,
                              detected |-> TRUE,
                              before |-> hosts, after |-> r.fs.hosts])
    /\ UNCHANGED <<appVars, awsVars>>

\* clear_conflicting_entries on a list of the caller's own
ClearGiven ==
    /\ log = <<>>
    /\ \E arg \in ClearArguments :
         LET r == clear_conflicting_entries(Fs, arg, IoOk) IN
         /\ hosts' = r.fs.hosts
         /\ backup' = r.fs.backup
         /\ flushes' = r.fs.flushes
         /\ log' = Append(log, [op |-> "clear", arg |-> arg,
                                detected |-> FALSE,
                                before |-> hosts, after |-> r.fs.hosts])
    /\ UNCHANGED <<appVars, awsVars>>

NextConflict == Detect \/ ClearDetected \/ ClearGiven

SpecConflict == InitConflict /\ [][NextConflict]_vars

\* the text of a document outside its owned range: all of it without
\* sentinel, what precedes the sentinel when there is one, and what precedes
\* the first and follows the second when there are two or more
UnownedText(d) ==
    LET occ == Sentinels(d) IN
    IF occ = {} THEN d
    ELSE LET o1 == SetMin(occ) IN
         IF occ = {o1} THEN SubSeq(d, 1, o1)
         ELSE LET o2 == SetMin(occ \ {o1}) IN
              SubSeq(d, 1, o1)
              \o SubSeq(d, o2 + Len(SECTION_MARKER) + 1, Len(d))

\* the host names of the catalog, selectable and always blocked, lower-cased
ManagedNames ==
    { to_lowercase(<<SelectableInfo[r].hosts[k]>>) :
        r \in DOMAIN SelectableInfo, k \in 1..2 }
    \cup { to_lowercase(<<BlockedInfo[r].hosts[k]>>) :
             r \in DOMAIN BlockedInfo, k \in 1..2 }

\* a trimmed line that names a managed host as its second token
NamesManagedHost(t) ==
    /\ t # <<>>
    /\ t[1] # "#"
    /\ LET tokens == SplitWhitespace(t)
       IN  Len(tokens) >= 2 /\ to_lowercase(tokens[2]) \in ManagedNames

\* C6: detect_conflicting_entries returns the trimmed lines of the unowned
\* text that name a managed host as second token, each once, in the order of
\* their first appearance, and nothing else.
C6_DetectExact ==
    \A i \in 1..Len(log) :
        log[i].op = "detect" =>
            LET ls == Lines(UnownedText(log[i].before))
                t == [k \in 1..Len(ls) |-> Trim(ls[k])]
                found == log[i].found
                firstAt(x) == SetMin({ k \in 1..Len(ls) : t[k] = x })
            IN  /\ \A n \in 1..Len(found) :
                     /\ NamesManagedHost(found[n])
                     /\ \E k \in 1..Len(ls) : t[k] = found[n]
                /\ \A k \in 1..Len(ls) :
                     NamesManagedHost(t[k]) =>
                         \E n \in 1..Len(found) : found[n] = t[k]
                /\ \A m, n \in 1..Len(found) :
                     m < n => /\ found[m] # found[n]
                              /\ firstAt(found[m]) < firstAt(found[n])

\* a detection that reports a conflict on a document whose managed section
\* holds a line naming a managed host, which it does not report
C6_Witness ==
    \E i \in 1..Len(log) :
        /\ log[i].op = "detect"
        /\ log[i].found # <<>>
        /\ Cardinality(Sentinels(log[i].before)) = 2
        /\ \E k \in 1..Len(Lines(log[i].before)) :
               LET t == Trim(Lines(log[i].before)[k])
               IN  /\ NamesManagedHost(t)
                   /\ \A n \in 1..Len(log[i].found) : log[i].found[n] # t

\* the lines of a document whose trimmed text is none of the trimmed
\* elements of arg, in their order
LinesKept(d, arg) ==
    LET ls == Lines(d)
        gone == { Trim(arg[k]) : k \in 1..Len(arg) }
        idx == Ascending({ k \in 1..Len(ls) : Trim(ls[k]) \notin gone })
    IN  [k \in 1..Len(idx) |-> ls[idx[k]]]

\* the lines of a document that hold a sentinel
SentinelLines(d) == SelectSeq(Lines(d), LAMBDA l : Sentinels(l) # {})

\* every line that holds a sentinel holds nothing else but white space
SentinelsOnOwnLines(d) ==
    \A k \in 1..Len(Lines(d)) :
        Sentinels(Lines(d)[k]) # {} => Trim(Lines(d)[k]) = SECTION_MARKER

\* C7 as stated: after clear_conflicting_entries the lines of the file are
\* exactly the lines that match no element of the list, the file ends with a
\* line break iff it did before, and when the list is the detection's result
\* no sentinel line is removed and a further detection finds nothing.
C7_ClearExact ==
    \A i \in 1..Len(log) :
        log[i].op = "clear" =>
            /\ Lines(log[i].after) = LinesKept(log[i].before, log[i].arg)
            /\ EndsWith(log[i].after, <<NL>>)
                   <=> EndsWith(log[i].before, <<NL>>)
            /\ log[i].detected =>
                 /\ SentinelLines(log[i].after) = SentinelLines(log[i].before)
                 /\ i < Len(log) => log[i + 1].found = <<>>

\* What clear_conflicting_entries does guarantee: the file becomes the kept
\* lines joined by line breaks, with a final line break iff the original
\* ended with one; its lines are exactly the kept lines, and the final line
\* break is as before, whenever a line is kept and the last kept line is not
\* empty; and when the list is the detection's result and every sentinel
\* stands on a line of its own, no sentinel line is removed and a further
\* detection finds nothing.
ClearKept ==
    \A i \in 1..Len(log) :
        log[i].op = "clear" =>
            LET kept == LinesKept(log[i].before, log[i].arg) IN
            /\ log[i].after =
                   JoinLines(kept)
                   \o (IF EndsWith(log[i].before, <<NL>>) THEN <<NL>>
                       ELSE <<>>)
            /\ (kept # <<>> /\ kept[Len(kept)] # <<>>) =>
                 /\ Lines(log[i].after) = kept
                 /\ EndsWith(log[i].after, <<NL>>)
                        <=> EndsWith(log[i].before, <<NL>>)
            /\ (log[i].detected /\ SentinelsOnOwnLines(log[i].before)) =>
                 /\ SentinelLines(log[i].after) = SentinelLines(log[i].before)
                 /\ i < Len(log) => log[i + 1].found = <<>>

---------------------------------------------------------------------------
(* Calls of the two policies on bounded inputs                             *)

\* the number of calls made on one file
MaxPolicyCalls == 1

\* the calls made so far: the trail holds the last of them and its number
PolicyCalls == IF log = <<>> THEN 0 ELSE log[1].nth

\* the selections apply_gatekeep is called with
PolicySelections ==
    { {}, {"Europe (London)"}, {"Europe (Ireland)", "US East (Ohio)"},
      {"Europe (London)", "US East (Ohio)"} }

\* the regions apply_universal_redirect is called with; the last one is no
\* key of the selectable regions
PolicyRegions ==
    { "Europe (London)", "Asia Pacific (Sydney)", "Africa (Cape Town)" }

\* the outcomes of fs::copy and fs::write the policies are called with
PolicyIo ==
    { [backup_ok |-> TRUE, write_ok |-> TRUE],
      [backup_ok |-> FALSE, write_ok |-> TRUE],
      [backup_ok |-> TRUE, write_ok |-> FALSE] }

\* the documents the policies are called on: one without sentinel, one with
\* a managed section
PolicyDocs == { d \in StartDocs : Len(d) = 4 \/ Find(d, SECTION_MARKER) # NONE }

\* the backup files the policies are called with: none, or the copy an
\* earlier run left
PolicyBackups == { NoFile, <<"127.0.0.1", " ", "localhost", NL>> }

InitPolicy ==
    /\ hosts \in PolicyDocs
    /\ backup \in PolicyBackups
    /\ flushes = 0
    /\ app_regions \in { get_selectable_regions(o) : o \in SelectableOrders }
    /\ app_blocked \in { get_blocked_regions(o) : o \in BlockedOrders }
    /\ selected_regions = {}
    /\ settings = DefaultSettings
    /\ dialog = NoDialog
    /\ AwsNew
    /\ log = <<>>

\* a call of a policy has returned: the file system it leaves, and the call
\* as the last entry of the trail
PolicyReturns(op, arg, opts, dns, result) ==
    /\ SetFs(result.fs)
    /\ log' = << [op |-> op, arg |-> arg, opts |-> opts, dns |-> dns,
                  ok |-> result.ok,
                  err |-> result.err, before |-> Fs, after |-> result.fs,
                  nth |-> PolicyCalls + 1] >>
    /\ UNCHANGED <<appVars, awsVars>>

\* one call of apply_gatekeep
CallGatekeep ==
    /\ PolicyCalls < MaxPolicyCalls
    /\ \E selected \in PolicySelections,
          block_mode \in {"Both", "OnlyPing", "OnlyService"},
          merge_unstable \in BOOLEAN, io \in PolicyIo :
         PolicyReturns("apply_gatekeep", selected,
                       [block_mode |-> block_mode,
                        merge_unstable |-> merge_unstable], <<>>,
                       apply_gatekeep(Fs, app_regions, app_blocked, selected,
                                      block_mode, merge_unstable, io))

\* one call of apply_universal_redirect
CallUniversalRedirect ==
    /\ PolicyCalls < MaxPolicyCalls
    /\ \E selected_region \in PolicyRegions, dns \in DnsOutcomes,
          io \in PolicyIo :
         PolicyReturns("apply_universal_redirect", selected_region, <<>>,
                       dns,
                       apply_universal_redirect(Fs, app_regions, app_blocked,
                                                selected_region, dns, io))

NextPolicy == CallGatekeep \/ CallUniversalRedirect

SpecPolicy == InitPolicy /\ [][NextPolicy]_vars

\* C9: apply_gatekeep with an empty selection, and
\* apply_universal_redirect with a region that is no key of the catalog or
\* with a service or ping host that does not resolve, return an error and
\* leave the hosts file, the backup file and the resolver cache untouched.
C9_RejectedBeforeWrite ==
    \A i \in 1..Len(log) :
        LET call == log[i]
            rejected ==
                \/ call.op = "apply_gatekeep" /\ call.arg = {}
                \/ /\ call.op = "apply_universal_redirect"
                   /\ \/ call.arg \notin DOMAIN SelectableInfo
                      \/ \E k \in {1, 2} :
                           call.dns[SelectableInfo[call.arg].hosts[k]]
                               = Unresolved
        IN  rejected =>
                /\ ~call.ok
                /\ call.err # ""
                /\ call.after = call.before
                /\ hosts = call.before.hosts
                /\ backup = call.before.backup
                /\ flushes = call.before.flushes

\* a redirect rejected because the ping host alone fails to resolve, called
\* on a file system that holds a backup
C9_Witness ==
    /\ log # <<>>
    /\ log[1].op = "apply_universal_redirect"
    /\ log[1].arg \in DOMAIN SelectableInfo
    /\ log[1].dns[SelectableInfo[log[1].arg].hosts[1]] # Unresolved
    /\ log[1].dns[SelectableInfo[log[1].arg].hosts[2]] = Unresolved
    /\ ~log[1].ok
    /\ backup # NoFile

---------------------------------------------------------------------------
(* The block the two policies generate                                     *)

\* the text between the first two sentinels of a document
ManagedSection(d) ==
    LET o1 == SetMin(Sentinels(d))
        o2 == SetMin(Sentinels(d) \ {o1})
    IN  SubSeq(d, o1 + Len(SECTION_MARKER) + 1, o2)

\* the lines of the managed section of a document, as lists of fields
SectionFields(d) ==
    LET ls == Lines(ManagedSection(d)) IN
    { SplitWhitespace(ls[k]) : k \in 1..Len(ls) }

\* the section holds the line "# host" / the line "0.0.0.0 host"
Commented(fields, host) == << <<"#">>, <<host>> >> \in fields
NullRouted(fields, host) == << <<"0.0.0.0">>, <<host>> >> \in fields

\* the hosts of a region of a catalog
HostsOf(info, r) == { info[r].hosts[k] : k \in 1..Len(info[r].hosts) }

\* the last call was a call of the policy that wrote the section
Wrote(op) == log # <<>> /\ log[1].op = op /\ log[1].ok

\* C11: after apply_gatekeep with block scope Both, every host of every
\* catalog region of the allow-set stands in the section as a commented
\* line and never as a 0.0.0.0 line, every host of every other catalog
\* region stands there as a 0.0.0.0 line, and the selection is part of the
\* allow-set, so that no host of a selected region is null-routed.
C11_GatekeepBoth ==
    (Wrote("apply_gatekeep") /\ log[1].opts.block_mode = "Both") =>
        LET fields == SectionFields(hosts)
            allowed == AllowedSet(app_regions, log[1].arg,
                                  log[1].opts.merge_unstable)
        IN  /\ log[1].arg \subseteq allowed
            /\ \A r \in DOMAIN app_regions.info :
                 \A h \in HostsOf(app_regions.info, r) :
                    IF r \in allowed
                    THEN Commented(fields, h) /\ ~NullRouted(fields, h)
                    ELSE NullRouted(fields, h)
            /\ \A r \in log[1].arg :
                 \A h \in HostsOf(app_regions.info, r) :
                    ~NullRouted(fields, h)

\* a Gatekeep block, scope Both, whose allow-set is larger than the
\* selection and leaves regions out
C11_Witness ==
    /\ Wrote("apply_gatekeep") /\ log[1].opts.block_mode = "Both"
    /\ \E r \in DOMAIN app_regions.info :
         /\ r \notin log[1].arg
         /\ \A h \in HostsOf(app_regions.info, r) :
              Commented(SectionFields(hosts), h)
    /\ \E r \in DOMAIN app_regions.info :
         \A h \in HostsOf(app_regions.info, r) :
            NullRouted(SectionFields(hosts), h)

\* C12: after apply_gatekeep and after apply_universal_redirect, every host
\* of every always-blocked region stands in the managed section as a
\* 0.0.0.0 line, whatever the selection, the block scope and the merge flag.
C12_AlwaysBlocked ==
    (Wrote("apply_gatekeep") \/ Wrote("apply_universal_redirect")) =>
        LET fields == SectionFields(hosts) IN
        \A b \in DOMAIN app_blocked.info :
            \A h \in HostsOf(app_blocked.info, b) :
                NullRouted(fields, h)

\* a Universal Redirect block written over an older managed section
C12_Witness ==
    /\ Wrote("apply_universal_redirect")
    /\ Sentinels(log[1].before.hosts) # {}
    /\ NullRouted(SectionFields(hosts), "gamelift.cn-north-1.amazonaws.com.cn")

\* the host names of the model that hold "ping", in whatever case / in
\* lower case
PingNamedAnyCase ==
    { h \in CatalogHosts : ContainsPing_exact(h) }
    \cup { "gamelift-ping.af-south-1.api.aws",
           "gamelift-ping.cn-north-1.api.aws",
           "Gamelift-Ping.AF-South-1.api.aws",
           "GameLift-Ping.EU-West-2.api.aws" }

PingNamedExact ==
    PingNamedAnyCase \ { "Gamelift-Ping.AF-South-1.api.aws",
                         "GameLift-Ping.EU-West-2.api.aws" }

\* C13: after apply_universal_redirect, with S the address resolved for the
\* first host of the selected region and P the address resolved for its
\* second host (its first when it has one host), the section holds for
\* every host of every catalog region exactly one line naming it, and that
\* line is "P host" when the name holds "ping" in whatever case and
\* "S host" otherwise.
C13_RedirectLines ==
    Wrote("apply_universal_redirect") =>
        LET named == app_regions.info[log[1].arg].hosts
            S == log[1].dns[named[1]]
            P == log[1].dns[named[IF Len(named) > 1 THEN 2 ELSE 1]]
            ls == Lines(ManagedSection(hosts))
        IN  \A r \in DOMAIN app_regions.info :
                \A h \in HostsOf(app_regions.info, r) :
                    LET naming == { k \in 1..Len(ls) :
                                      \E j \in 1..Len(ls[k]) : ls[k][j] = h }
                        ip == IF h \in PingNamedAnyCase THEN P ELSE S
                    IN  /\ Cardinality(naming) = 1
                        /\ \A k \in naming : ls[k] = <<ip, " ", h>>

\* a redirect to a region other than the one the resolver answers 5.5.5.5
\* and 6.6.6.6 for
C13_Witness ==
    /\ Wrote("apply_universal_redirect")
    /\ log[1].arg = "Europe (London)"
    /\ << <<"4.4.4.4">>, <<"gamelift-ping.ap-southeast-2.api.aws">> >>
           \in SectionFields(hosts)
    /\ << <<"3.3.3.3">>, <<"gamelift.us-east-1.amazonaws.com">> >>
           \in SectionFields(hosts)

\* the catalog regions the block of apply_gatekeep lets through: those with
\* a commented host line
LetThrough(fields) ==
    { r \in DOMAIN app_regions.info :
        \E h \in HostsOf(app_regions.info, r) : Commented(fields, h) }

\* C19: when merge_unstable is set and no selected region is stable, the
\* regions apply_gatekeep lets through hold, for the group of every selected
\* unstable catalog region, a stable catalog region of that group whenever
\* the catalog has one, and every region let through beyond the selection
\* is stable and of the group of a selected region; otherwise the regions
\* let through are the selected ones.
C19_StableFallback ==
    Wrote("apply_gatekeep") =>
        LET info == app_regions.info
            selected == log[1].arg
            through == LetThrough(SectionFields(hosts))
            StableOf(group) ==
                { s \in DOMAIN info :
                    info[s].stable /\ get_group_name(s) = group }
        IN  IF /\ log[1].opts.merge_unstable
               /\ \A r \in selected \cap DOMAIN info : ~info[r].stable
            THEN /\ selected \cap DOMAIN info \subseteq through
                 /\ \A r \in selected \cap DOMAIN info :
                      StableOf(get_group_name(r)) # {} =>
                          StableOf(get_group_name(r)) \cap through # {}
                 /\ \A a \in through \ selected :
                      /\ info[a].stable
                      /\ \E r \in selected :
                           get_group_name(r) = get_group_name(a)
            ELSE through = selected \cap DOMAIN info

\* two unstable regions of two groups selected, each given a stable region
\* of its group
C19_Witness ==
    /\ Wrote("apply_gatekeep")
    /\ log[1].opts.merge_unstable
    /\ log[1].arg = {"Europe (London)", "US East (Ohio)"}
    /\ Cardinality(LetThrough(SectionFields(hosts))) = 4

---------------------------------------------------------------------------
(* apply_gatekeep on the catalog and on a regions map of the caller's own  *)

\* a regions map handed to apply_gatekeep by a caller other than the main
\* window: one region, its host names written with capital letters
GivenRegions ==
    [info |-> [ r \in { "Europe (London)" } |->
                  [hosts |-> << "GameLift.EU-West-2.amazonaws.com",
                                "GameLift-Ping.EU-West-2.api.aws" >>,
                   stable |-> FALSE] ],
     iter |-> << "Europe (London)" >>]

InitScope ==
    /\ hosts \in PolicyDocs
    /\ backup = NoFile
    /\ flushes = 0
    /\ app_regions \in { get_selectable_regions(o) : o \in SelectableOrders }
                       \cup { GivenRegions }
    /\ app_blocked \in { get_blocked_regions(o) : o \in BlockedOrders }
    /\ selected_regions = {}
    /\ settings = DefaultSettings
    /\ dialog = NoDialog
    /\ AwsNew
    /\ log = <<>>

NextScope == CallGatekeep

SpecScope == InitScope /\ [][NextScope]_vars

\* the section holds a line for the host, commented or null-routed
HasLine(fields, host) == Commented(fields, host) \/ NullRouted(fields, host)

\* the host is in the scope of the block mode, pingNamed being the names in
\* "ping" scope
InScope(pingNamed, host, block_mode) ==
    CASE block_mode = "Both" -> TRUE
      [] block_mode = "OnlyPing" -> host \in pingNamed
      [] block_mode = "OnlyService" -> host \notin pingNamed

---------------------------------------------------------------------------
(* The apply action of the main window                                     *)

\* the trail is that of an apply action
ApplyTrail == log # <<>> /\ log[1].op = "click" /\ log[1].note = "apply"

\* the entries of the trail at which a method that writes the hosts file
\* was called
WriteCalls == { i \in 1..Len(log) : log[i].op \in {"clear", "apply"} }

\* the trail holds the entry (op, note) at i
Has(i, op, note) ==
    i \in 1..Len(log) /\ log[i].op = op /\ log[i].note = note

\* C8: in an apply action the detection runs before any write; when it
\* reports a conflict nothing is written until the conflict dialog is
\* answered, Cancel ends the action with the file unchanged, the policy is
\* written without clearing only after the confirmation dialog was answered
\* Yes; and when the clearing fails the policy is not written.
C8_ApplyFlow ==
    ApplyTrail =>
        /\ Len(log) >= 2 /\ log[2].op = "detect"
        /\ \A i \in WriteCalls : i > 2
        /\ log[2].note # <<>> =>
             /\ dialog.kind \in {"conflict", "confirm"} =>
                    hosts = log[1].start /\ WriteCalls = {}
             /\ \A i \in WriteCalls :
                    \E j \in 3..(i - 1) :
                        Has(j, "answer", "clear") \/ Has(j, "answer", "keep")
             /\ (\E j \in 1..Len(log) : Has(j, "answer", "Cancel")) =>
                    /\ hosts = log[1].start
                    /\ WriteCalls = {}
                    /\ dialog.kind = "none"
             /\ (\E j \in 1..Len(log) : Has(j, "answer", "keep")) =>
                    /\ \A i \in WriteCalls :
                           log[i].op = "apply" /\ Has(i - 1, "confirm", "Yes")
                    /\ WriteCalls = {} => hosts = log[1].start
        /\ \A i \in 1..Len(log) :
               Has(i, "clear", FALSE) =>
                   \A j \in 1..Len(log) : log[j].op # "apply"

\* the policy written over a reported conflict after the confirmation
C8_Witness ==
    /\ ApplyTrail
    /\ log[2].note # <<>>
    /\ \E i \in WriteCalls :
           /\ log[i] = Event("apply", TRUE, TRUE)
           /\ Has(i - 1, "confirm", "Yes")
           /\ Has(i - 2, "answer", "keep")

\* the messages of the validation and resolution errors of an apply action
RejectionMessages ==
    { "Please select at least one server to allow.", OnlyOneServer,
      "Selected region not found", "Failed to resolve hostname" }

\* C10: over a whole apply action, on every path, a validation error or a
\* resolution error is reported with the hosts file exactly as it was when
\* the action started.
C10_RejectionLeavesFile ==
    ApplyTrail =>
        \A i \in 1..Len(log) :
            (log[i].op = "error" /\ log[i].note \in RejectionMessages) =>
                hosts = log[1].start


---------------------------------------------------------------------------
(* get_region calls sharing one AwsIpService                               *)

\* the text of a CIDR block
CidrText(a, b, c, d, prefix) == <<a, ".", b, ".", c, ".", d, "/", prefix>>

\* a record of the feed
FeedRecord(ip_prefix, region) == [ip_prefix |-> ip_prefix, region |-> region]

\* the decoded feeds a fetch may return: two nested blocks; blocks of equal
\* length, an unaligned block, the /0 and a /32 block, a known region code
\* and a record without region; records that give no entry; a feed without
\* "prefixes"
Feeds ==
    { [prefixes |-> Some(<<
          FeedRecord(Some(CidrText("10", "0", "0", "0", "8")), Some("A")),
          FeedRecord(Some(CidrText("10", "1", "0", "0", "16")), Some("B"))
       >>)],
      [prefixes |-> Some(<<
          FeedRecord(Some(CidrText("0", "0", "0", "0", "0")), Some("C")),
          FeedRecord(Some(CidrText("10", "1", "0", "0", "16")),
                     Some("eu-west-2")),
          FeedRecord(Some(CidrText("10", "1", "2", "3", "16")), Some("B")),
          FeedRecord(Some(CidrText("10", "1", "2", "3", "32")), None)
       >>)],
      [prefixes |-> Some(<<
          FeedRecord(None, Some("A")),
          FeedRecord(Some(<<>>), Some("A")),
          FeedRecord(Some(CidrText("10", "0", "0", "0", "33")), Some("A")),
          FeedRecord(Some(CidrText("10", "0", "0", "0", "8") \o <<"/", "8">>),
                     Some("A")),
          FeedRecord(Some(CidrText("256", "0", "0", "0", "8")), Some("A")),
          FeedRecord(Some(<<"10", ".", "0", ".", "0", ".", "0">>), Some("A")),
          FeedRecord(Some(<<"x">>), Some("A")),
          FeedRecord(Some(CidrText("11", "0", "0", "0", "8")), Some("D"))
       >>)],
      [prefixes |-> None] }

\* the arguments get_region is called with: IPv4 literals, an IPv6 literal,
\* a text with an octet above 255, a word
Queries ==
    { <<"10", ".", "1", ".", "2", ".", "3">>,
      <<"10", ".", "2", ".", "2", ".", "3">>,
      <<"10", ".", "1", ".", "0", ".", "8">>,
      <<"11", ".", "0", ".", "0", ".", "1">>,
      <<"10", ".", "1", ".", "2", ".", "256">>,
      <<"::", "1">>,
      <<"x">> }

\* the feeds and the arguments of the calls that run side by side
RaceFeeds ==
    { resp \in Feeds : resp.prefixes = None \/ Len(resp.prefixes[1]) = 2 }

RaceQueries == { <<"10", ".", "1", ".", "2", ".", "3">>, <<"x">> }

InitRanges ==
    /\ hosts = <<>>
    /\ backup = NoFile
    /\ flushes = 0
    /\ AppIdle
    /\ log = <<>>

\* every step of a get_region call leaves the rest alone
RangesFrame == UNCHANGED <<fileVars, appVars, log>>

\* get_region is called and reaches fetch_lock.lock().await; waited: a fetch
\* of another call is in flight at that moment
Call(c, queries) ==
    /\ calls[c].pc = "idle"
    /\ \E ip_str \in queries :
         calls' = [calls EXCEPT ![c] =
                     [@ EXCEPT !.pc = "lock", !.ip_str = ip_str,
                               !.waited = \E d \in Callers :
                                             calls[d].pc = "fetch"]]
    /\ UNCHANGED <<cidrs, fetch_lock>>
    /\ RangesFrame

\* refresh: the gate acquired and the request sent
Acquire(c) ==
    /\ calls[c].pc = "lock"
    /\ GateFree(fetch_lock)
    /\ fetch_lock' = c
    /\ calls' = [calls EXCEPT ![c] =
                   [@ EXCEPT !.pc = "fetch", !.fetches = @ + 1]]
    /\ UNCHANGED cidrs
    /\ RangesFrame

\* refresh: send() or json() returns an error; the gate is released, the
\* table is not touched, get_region returns
FetchFails(c) ==
    /\ calls[c].pc = "fetch"
    /\ fetch_lock' = Released(fetch_lock)
    /\ calls' = [calls EXCEPT ![c] =
                   [@ EXCEPT !.pc = "done",
                             !.result = RefreshFailed(cidrs, calls[c].ip_str),
                             !.table = cidrs]]
    /\ UNCHANGED cidrs
    /\ RangesFrame

\* refresh: the feed arrives and decodes; the list is built and published,
\* the gate is released
FetchPublishes(c, feeds) ==
    /\ calls[c].pc = "fetch"
    /\ TableFree(calls)
    /\ \E resp \in feeds :
         /\ cidrs' = Published(cidrs, ParsedList(resp))
         /\ calls' = [calls EXCEPT ![c] =
                        [@ EXCEPT !.pc = "lookup", !.refreshed = TRUE,
                                  !.feed = Some(resp)]]
    /\ fetch_lock' = Released(fetch_lock)
    /\ RangesFrame

\* get_region after the refresh: the table locked and searched, the lock
\* held from the first entry to the last
Lookup(c) ==
    /\ calls[c].pc = "lookup"
    /\ TableFree(calls)
    /\ calls' = [calls EXCEPT ![c] =
                   [@ EXCEPT !.pc = "done",
                             !.result = Classified(cidrs, calls[c].ip_str),
                             !.table = cidrs]]
    /\ UNCHANGED <<cidrs, fetch_lock>>
    /\ RangesFrame

\* the caller, its call returned, is ready to call again; the call it made
\* is kept as the trail
Returned(c) ==
    /\ calls[c].pc = "done"
    /\ log' = <<calls[c]>>
    /\ calls' = [calls EXCEPT ![c] = NotCalled]
    /\ UNCHANGED <<cidrs, fetch_lock>>
    /\ UNCHANGED <<fileVars, appVars>>

\* get_region: ip_str parses, and to an IpAddr::V4
IsIpv4(ip_str) ==
    parse_IpAddr(ip_str) # None /\ parse_IpAddr(ip_str)[1].v = "V4"

\* get_region after the refresh, the argument is no IPv4 literal: None is
\* returned before the table is locked
NotIpv4(c) ==
    /\ calls[c].pc = "lookup"
    /\ ~IsIpv4(calls[c].ip_str)
    /\ calls' = [calls EXCEPT ![c] = [@ EXCEPT !.pc = "done"]]
    /\ UNCHANGED <<cidrs, fetch_lock>>
    /\ RangesFrame

\* get_region: self.cidrs.lock().unwrap(), the scan about to start
LockTable(c) ==
    /\ calls[c].pc = "lookup"
    /\ IsIpv4(calls[c].ip_str)
    /\ TableFree(calls)
    /\ calls' = [calls EXCEPT ![c] = [@ EXCEPT !.pc = "scan"]]
    /\ UNCHANGED <<cidrs, fetch_lock>>
    /\ RangesFrame

\* get_region, one turn of the loop: the next entry of the table is read;
\* table is the entries read so far
ScanEntry(c) ==
    /\ calls[c].pc = "scan"
    /\ Len(calls[c].table) < Len(cidrs)
    /\ LET cidr == cidrs[Len(calls[c].table) + 1] IN
       calls' = [calls EXCEPT ![c] =
                   [@ EXCEPT !.table = Append(calls[c].table, cidr),
                             !.best = BestFrom(
                                 <<cidr>>,
                                 parse_IpAddr(calls[c].ip_str)[1].addr, 1,
                                 calls[c].best)]]
    /\ UNCHANGED <<cidrs, fetch_lock>>
    /\ RangesFrame

\* get_region: the loop is over, the result is rendered and the table lock
\* is dropped
ScanEnds(c) ==
    /\ calls[c].pc = "scan"
    /\ Len(calls[c].table) >= Len(cidrs)
    /\ calls' = [calls EXCEPT ![c] =
                   [@ EXCEPT !.pc = "done",
                             !.result =
                                 IF calls[c].best = None THEN None
                                 ELSE Some(get_pretty_region_name(
                                               calls[c].best[1].region))]]
    /\ UNCHANGED <<cidrs, fetch_lock>>
    /\ RangesFrame

\* calls side by side, one per caller, the scan of the table entry by entry
NextRanges ==
    \E c \in Callers :
        \/ Call(c, RaceQueries)
        \/ Acquire(c)
        \/ FetchFails(c)
        \/ FetchPublishes(c, RaceFeeds)
        \/ NotIpv4(c)
        \/ LockTable(c)
        \/ ScanEntry(c)
        \/ ScanEnds(c)

SpecRanges == InitRanges /\ [][NextRanges]_vars

\* calls one after the other, on every feed and every argument
NextLookup ==
    \/ Call(1, Queries)
    \/ Acquire(1)
    \/ FetchFails(1)
    \/ FetchPublishes(1, Feeds)
    \/ Lookup(1)
    \/ Returned(1)

SpecLookup == InitRanges /\ [][NextLookup]_vars

\* the address an argument of the study denotes, None when it is no IPv4
\* literal
Denotes(ip_str) ==
    CASE ip_str = <<"10", ".", "1", ".", "2", ".", "3">> ->
             Some(<<10, 1, 2, 3>>)
      [] ip_str = <<"10", ".", "2", ".", "2", ".", "3">> ->
             Some(<<10, 2, 2, 3>>)
      [] ip_str = <<"10", ".", "1", ".", "0", ".", "8">> ->
             Some(<<10, 1, 0, 8>>)
      [] ip_str = <<"11", ".", "0", ".", "0", ".", "1">> ->
             Some(<<11, 0, 0, 1>>)
      [] OTHER -> None

\* the entries of a table that satisfy ip & mask == network
Matching(table, ip) ==
    { k \in 1..Len(table) : And32(ip, table[k].mask) = table[k].network }

\* the calls that returned after a refresh that succeeded: the one before
\* and the present one
Answered ==
    { call \in { calls[c] : c \in Callers }
                 \cup { log[i] : i \in 1..Len(log) } :
        call.pc = "done" /\ call.refreshed }

\* C14: get_region, its refresh done, returns None when the argument is no
\* IPv4 literal or when no entry of the table satisfies
\* ip & mask == network; otherwise it returns the region (rendered by
\* get_pretty_region_name) of the matching entry of greatest prefix_len,
\* the first in feed order among those of equal prefix_len.
C14_LongestPrefix ==
    \A call \in Answered :
        LET table == call.table
            ip == Denotes(call.ip_str)
        IN  IF ip = None THEN call.result = None
            ELSE IF Matching(table, ip[1]) = {} THEN call.result = None
            ELSE \E k \in Matching(table, ip[1]) :
                    /\ \A j \in Matching(table, ip[1]) :
                         \/ table[j].prefix_len < table[k].prefix_len
                         \/ /\ table[j].prefix_len = table[k].prefix_len
                            /\ j >= k
                    /\ call.result =
                           Some(get_pretty_region_name(table[k].region))

\* with 10.0.0.0/8 -> A and 10.1.0.0/16 -> B in the table, 10.1.2.3 gives B
\* and 10.2.2.3 gives A
C14_Witness ==
    \E c, d \in Answered :
        /\ Len(c.table) = 2 /\ c.table = d.table
        /\ c.table[1].prefix_len = 8
        /\ c.table[2].prefix_len = 16
        /\ c.ip_str = <<"10", ".", "1", ".", "2", ".", "3">>
        /\ c.result = Some("B")
        /\ d.ip_str = <<"10", ".", "2", ".", "2", ".", "3">>
        /\ d.result = Some("A")

\* C15: at most one fetch of the feed is in flight at any time, and it is
\* the fetch of the holder of the gate: a call that arrived while a fetch is
\* running has not started its own.
C15_OneFetchInFlight ==
    /\ Cardinality({ c \in Callers : calls[c].pc = "fetch" }) <= 1
    /\ \A c \in Callers : calls[c].pc = "fetch" => fetch_lock = c
    /\ \A c \in Callers :
         (calls[c].pc = "lock" /\ \E d \in Callers : calls[d].pc = "fetch")
             => calls[c].fetches = 0

\* a call suspended on the gate while the fetch of another is in flight
C15_Witness ==
    \E c, d \in Callers :
        /\ calls[c].pc = "fetch"
        /\ calls[d].pc = "lock"
        /\ calls[d].waited

\* C16: a get_region call that arrived while the refresh of another call
\* was in flight performs no fetch of its own.
C16_SingleFlight ==
    \A c \in Callers : calls[c].waited => calls[c].fetches = 0

\* C17: a get_region call whose refresh fails returns None whatever its
\* argument and whatever the table holds, and the failing refresh leaves
\* the table as it was.
C17_FailedRefresh ==
    [][ \A c \in Callers :
          (calls[c].pc = "fetch" /\ calls'[c].pc = "done") =>
              /\ calls'[c].result = None
              /\ cidrs' = cidrs ]_vars

\* a call returned None after a failed refresh although the table loaded
\* before holds an entry matching its argument
C17_Witness ==
    \E c \in Callers :
        /\ calls[c].pc = "done"
        /\ ~calls[c].refreshed
        /\ calls[c].result = None
        /\ Denotes(calls[c].ip_str) # None
        /\ Matching(cidrs, Denotes(calls[c].ip_str)[1]) # {}

\* the tables a refresh of the calls side by side can publish, and the
\* table of AwsIpService::new
CompleteTables == { <<>> } \cup { ParsedList(resp) : resp \in RaceFeeds }

\* C25: the table is at every moment the complete list of one refresh or
\* the initial empty table; while a call scans it the entries the call has
\* read are the first entries of the table as it stands, so no refresh
\* replaced it under the scan; and the entries a finished scan has read are
\* one complete table.
C25_AtomicSwap ==
    /\ cidrs \in CompleteTables
    /\ \A c \in Callers :
         calls[c].pc = "scan" =>
             /\ Len(calls[c].table) <= Len(cidrs)
             /\ calls[c].table = SubSeq(cidrs, 1, Len(calls[c].table))
    /\ \A c \in Callers :
         (calls[c].pc = "done" /\ calls[c].refreshed
              /\ IsIpv4(calls[c].ip_str))
             => calls[c].table \in CompleteTables

\* a call half-way through a table of two entries while the fetch of
\* another call is in flight
C25_Witness ==
    \E c, d \in Callers :
        /\ calls[c].pc = "scan"
        /\ Len(calls[c].table) = 1
        /\ Len(cidrs) = 2
        /\ calls[d].pc = "fetch"

\* a step of a call that is under way: the gate taken, the fetch finishing
\* with an error or with the feed, a step of the lookup
CallStep ==
    \E c \in Callers :
        \/ Acquire(c)
        \/ FetchFails(c)
        \/ FetchPublishes(c, RaceFeeds)
        \/ NotIpv4(c)
        \/ LockTable(c)
        \/ ScanEntry(c)
        \/ ScanEnds(c)

\* the calls side by side, every fetch finishing and the executor running
\* a task that is ready: as long as a call can take a step, a call takes one
FairRanges == WF_vars(CallStep)

SpecRangesLive == InitRanges /\ [][NextRanges]_vars /\ FairRanges

\* C29: every fetch finishing, every get_region call that was made returns:
\* from some moment on no call is under way (a caller makes one call, and a
\* call that has returned stays returned, so a call that never returned
\* would be under way for ever); and the gate is held only by a call whose
\* fetch is in flight, so it is free again after a refresh that failed and
\* after one that succeeded.
C29_EveryCallReturns ==
    /\ <>[](\A c \in Callers : calls[c].pc \in {"idle", "done"})
    /\ [](\A c \in Callers : fetch_lock = c <=> calls[c].pc = "fetch")

\* every caller has returned, one after waiting at the gate, one after a
\* refresh that failed and one after a refresh that succeeded
C29_Witness ==
    /\ \A c \in Callers : calls[c].pc = "done"
    /\ \E c \in Callers : calls[c].waited
    /\ \E c \in Callers : ~calls[c].refreshed
    /\ \E c \in Callers : calls[c].refreshed
    /\ fetch_lock = NoHolder

---------------------------------------------------------------------------
(* The table a refresh publishes                                           *)

\* the text is a CIDR block: four runs of digits of value 0..255 separated
\* by ".", one "/", a run of digits of value 0..32
WellFormedCidr(text) ==
    /\ Len(text) = 9
    /\ \A k \in {2, 4, 6} : text[k] = "."
    /\ text[8] = "/"
    /\ \A k \in {1, 3, 5, 7} :
         text[k] \in DOMAIN Decimal /\ Decimal[text[k]] \in 0..255
    /\ text[9] \in DOMAIN Decimal /\ Decimal[text[9]] \in 0..32

\* the records of a feed that are to be skipped
Skipped(p) ==
    \/ p.ip_prefix = None
    \/ p.ip_prefix # None /\ p.ip_prefix[1] = <<>>
    \/ p.ip_prefix # None /\ ~WellFormedCidr(p.ip_prefix[1])

RECURSIVE Weight(_)
\* the octet whose one-bits are the bits of the set
Weight(bits) ==
    IF bits = {} THEN 0
    ELSE LET b == CHOOSE x \in bits : TRUE IN 2 ^ b + Weight(bits \ {b})

\* bit b of octet k of a u32 is among its n leading bits
Leading(k, b, n) == 8 * (k - 1) + (7 - b) < n

\* the u32 of n leading one-bits
LeadingOnes(n) == [k \in 1..4 |-> Weight({ b \in 0..7 : Leading(k, b, n) })]

\* the n leading bits of an address, the other bits cleared
LeadingBits(addr, n) ==
    [k \in 1..4 |->
        Weight({ b \in 0..7 :
                   Leading(k, b, n) /\ (addr[k] \div (2 ^ b)) % 2 = 1 })]

\* C26: the table a refresh has just published holds one entry for every
\* record of the feed that is not to be skipped, in feed order, and nothing
\* else; the entry of a record has the prefix length of its text, which is
\* in 0..32, the mask of that many leading one-bits and the network
\* address & mask.
C26_FeedParsing ==
    \A c \in Callers :
        (calls[c].pc = "lookup" /\ calls[c].feed[1].prefixes # None) =>
            LET prefixes == calls[c].feed[1].prefixes[1]
                kept == { k \in 1..Len(prefixes) : ~Skipped(prefixes[k]) }
            IN  /\ Len(cidrs) = Cardinality(kept)
                /\ \A k \in kept :
                     LET j == Cardinality({ i \in kept : i <= k })
                         text == prefixes[k].ip_prefix[1]
                         n == Decimal[text[9]]
                         addr == [o \in 1..4 |-> Decimal[text[2 * o - 1]]]
                     IN  /\ cidrs[j].prefix_len = n
                         /\ n \in 0..32
                         /\ cidrs[j].mask = LeadingOnes(n)
                         /\ cidrs[j].network = LeadingBits(addr, n)

\* a feed of eight records, seven of them to be skipped, published over a
\* table of four entries
C26_Witness ==
    /\ calls[1].pc = "lookup"
    /\ calls[1].feed[1].prefixes # None
    /\ Len(calls[1].feed[1].prefixes[1]) = 8
    /\ Len(cidrs) = 1
    /\ log # <<>>
    /\ Len(log[1].table) = 4

---------------------------------------------------------------------------
(* Calls of HostsManager on files that may be missing or unreadable, with  *)
(* every outcome of the backup, of the write and of the flush              *)

\* the number of calls made on one file
MaxFileCalls == 1

\* the calls made so far: the trail holds the last of them and its number
FileCalls == IF log = <<>> THEN 0 ELSE log[1].nth

\* the outcomes of fs::copy, of fs::write and of the flush command
FileIo ==
    { [backup_ok |-> TRUE, write_ok |-> TRUE, flush_ok |-> TRUE],
      [backup_ok |-> FALSE, write_ok |-> TRUE, flush_ok |-> TRUE],
      [backup_ok |-> TRUE, write_ok |-> TRUE, flush_ok |-> FALSE],
      [backup_ok |-> FALSE, write_ok |-> TRUE, flush_ok |-> FALSE],
      [backup_ok |-> TRUE, write_ok |-> FALSE, flush_ok |-> TRUE] }

\* a managed section of one null-routed host
OldSection(host) ==
    SECTION_MARKER \o <<NL, "0.0.0.0", " ", host, NL>> \o SECTION_MARKER
    \o <<NL>>

\* the files the calls are made on: an unowned line; no file; bytes that
\* are not UTF-8 between an unowned line, a line naming a managed host and
\* a managed section; an unowned line and a managed section; two managed
\* sections
FileDocs ==
    { <<"127.0.0.1", " ", "localhost", NL>>,
      NoFile,
      <<"10.0.0.1", " ", "keep.me", NL, NOT_UTF8, NL,
        "1.2.3.4", " ", "gamelift.eu-west-2.amazonaws.com", NL>>
      \o OldSection("gamelift.eu-west-1.amazonaws.com"),
      <<"10.0.0.1", " ", "keep.me", NL>>
      \o OldSection("gamelift.eu-west-1.amazonaws.com"),
      OldSection("gamelift.eu-west-1.amazonaws.com")
      \o OldSection("gamelift.eu-west-2.amazonaws.com") }

\* the selections apply_gatekeep is called with; with the regions map of
\* one region the second names no region of the map
FileSelections == { {"Europe (London)"}, {"Europe (Ireland)"} }

\* the lists clear_conflicting_entries is called with
FileConflicts ==
    { << <<"1.2.3.4", " ", "gamelift.eu-west-2.amazonaws.com">> >> }

InitFile ==
    /\ hosts \in FileDocs
    /\ backup \in PolicyBackups
    /\ flushes = 0
    /\ app_regions \in { get_selectable_regions(o) : o \in SelectableOrders }
                       \cup { GivenRegions }
    /\ app_blocked \in { get_blocked_regions(o) : o \in BlockedOrders }
    /\ selected_regions = {}
    /\ settings = DefaultSettings
    /\ dialog = NoDialog
    /\ AwsNew
    /\ log = <<>>

\* a call of a method that writes has returned
FileWritten(op, arg, opts, io, result) ==
    /\ SetFs(result.fs)
    /\ log' = << [op |-> op, arg |-> arg, opts |-> opts, io |-> io,
                  ok |-> result.ok, err |-> result.err, out |-> <<>>,
                  before |-> Fs, after |-> result.fs,
                  nth |-> FileCalls + 1] >>
    /\ UNCHANGED <<appVars, awsVars>>

\* a call of a method that only reads has returned
FileRead(op, out) ==
    /\ log' = << [op |-> op, arg |-> <<>>, opts |-> <<>>, io |-> <<>>,
                  ok |-> TRUE, err |-> "", out |-> out,
                  before |-> Fs, after |-> Fs, nth |-> FileCalls + 1] >>
    /\ UNCHANGED <<fileVars, appVars, awsVars>>

FileApplyGatekeep ==
    /\ FileCalls < MaxFileCalls
    /\ \E selected \in FileSelections,
          block_mode \in {"Both", "OnlyService"}, io \in FileIo :
         FileWritten("apply_gatekeep", selected,
                     [block_mode |-> block_mode, merge_unstable |-> FALSE],
                     io,
                     apply_gatekeep(Fs, app_regions, app_blocked, selected,
                                    block_mode, FALSE, io))

FileRevert ==
    /\ FileCalls < MaxFileCalls
    /\ \E io \in FileIo : FileWritten("revert", <<>>, <<>>, io, revert(Fs, io))

FileClearConflicts ==
    /\ FileCalls < MaxFileCalls
    /\ \E conflicts \in FileConflicts, io \in FileIo :
         FileWritten("clear_conflicting_entries", conflicts, <<>>, io,
                     clear_conflicting_entries(Fs, conflicts, io))

FileRestoreDefault ==
    /\ FileCalls < MaxFileCalls
    /\ \E io \in FileIo :
         FileWritten("restore_default", <<>>, <<>>, io,
                     restore_default(Fs, io))

FileDetect ==
    /\ FileCalls < MaxFileCalls
    /\ FileRead("detect_conflicting_entries",
                detect_conflicting_entries(Fs, AllRegions))

FileBlocked ==
    /\ FileCalls < MaxFileCalls
    /\ FileRead("get_blocked_hostnames", get_blocked_hostnames(Fs))

NextFile ==
    \/ FileApplyGatekeep
    \/ FileRevert
    \/ FileClearConflicts
    \/ FileRestoreDefault
    \/ FileDetect
    \/ FileBlocked

SpecFile == InitFile /\ [][NextFile]_vars

\* the methods that write the hosts file
WritingMethods ==
    { "apply_gatekeep", "revert", "clear_conflicting_entries",
      "restore_default" }

\* the last call was a call of a method that writes
WriteAttempted == log # <<>> /\ log[1].op \in WritingMethods

\* fs::copy of the hosts file succeeds: the copy is let through and there
\* is a file to copy
CopySucceeds(call) == call.io.backup_ok /\ call.before.hosts # NoFile

\* C21: after a call of apply, revert, clear conflicts or restore default
\* whose backup copy succeeds, the backup file holds the whole content the
\* hosts file had before the call, in place of the backup there was,
\* whether the write that follows succeeds or not; when the copy fails the
\* backup file is as it was.
C21_Backup ==
    WriteAttempted =>
        LET call == log[1] IN
        /\ backup = call.after.backup
        /\ IF CopySucceeds(call)
           THEN call.after.backup = call.before.hosts
           ELSE call.after.backup = call.before.backup

\* a write that changed the hosts file, its backup taking the place of an
\* older backup of another content
C21_Witness ==
    /\ WriteAttempted
    /\ log[1].ok
    /\ CopySucceeds(log[1])
    /\ log[1].before.backup # NoFile
    /\ log[1].before.backup # log[1].before.hosts
    /\ hosts # log[1].before.hosts
    /\ backup = log[1].before.hosts

\* C22: a call of apply, revert, clear conflicts or restore default whose
\* write succeeds returns Ok whatever the backup copy and the flush command
\* did, and the flush is run at most once; a call whose write fails returns
\* an error, leaves the hosts file as it was and runs no flush; restore
\* default leaves exactly the default file and an apply a file with the
\* block between two sentinels.
C22_BestEffort ==
    WriteAttempted =>
        LET call == log[1] IN
        IF call.io.write_ok
        THEN /\ call.ok /\ call.err = ""
             /\ call.after.flushes =
                    call.before.flushes
                    + (IF call.io.flush_ok THEN 1 ELSE 0)
             /\ call.op = "restore_default" => hosts = DefaultHosts
             /\ call.op = "apply_gatekeep" =>
                    /\ Cardinality(Sentinels(hosts)) >= 2
                    /\ \A b \in DOMAIN app_blocked.info :
                         \A h \in HostsOf(app_blocked.info, b) :
                             NullRouted(SectionFields(hosts), h)
        ELSE /\ ~call.ok /\ call.err # ""
             /\ call.after.flushes = call.before.flushes
             /\ hosts = call.before.hosts

\* a revert that returned Ok and took the section away although neither
\* the backup copy nor the flush command succeeded
C22_Witness ==
    /\ WriteAttempted
    /\ log[1].op = "revert"
    /\ ~log[1].io.backup_ok /\ ~log[1].io.flush_ok
    /\ log[1].ok
    /\ Sentinels(log[1].before.hosts) # {}
    /\ hosts # log[1].before.hosts
    /\ backup = log[1].before.backup
    /\ flushes = log[1].before.flushes

\* C23: on a hosts file that cannot be read as a string no call fails for
\* that reason, and every call does what it does on the empty document:
\* apply writes two line breaks and the wrapped block and nothing else,
\* detect_conflicting_entries returns the empty list and
\* get_blocked_hostnames the empty set.
C23_ReadFailure ==
    (log # <<>> /\ ~ReadsAsString(log[1].before.hosts)) =>
        LET call == log[1] IN
        /\ (call.op \in WritingMethods /\ call.io.write_ok) => call.ok
        /\ call.op \notin WritingMethods => call.ok
        /\ (call.op = "apply_gatekeep" /\ call.ok) =>
               /\ StartsWith(hosts, <<NL, NL>> \o SECTION_MARKER \o <<NL>>)
               /\ EndsWith(hosts, SECTION_MARKER \o <<NL>>)
               /\ Cardinality(Sentinels(hosts)) = 2
        /\ call.op = "detect_conflicting_entries" => call.out = <<>>
        /\ call.op = "get_blocked_hostnames" => call.out = {}

\* get_blocked_hostnames on a file whose bytes are not UTF-8 and which
\* holds a managed section with a null-routed host
C23_Witness ==
    /\ log # <<>>
    /\ log[1].op = "get_blocked_hostnames"
    /\ hosts # NoFile
    /\ ~ReadsAsString(hosts)
    /\ Cardinality(Sentinels(hosts)) = 2
    /\ log[1].out = {}

\* C24: when the hosts file is there and holds text outside the managed
\* section but cannot be read as a string, an apply or a revert whose write
\* succeeds leaves that text in the hosts file.
C24_UnownedSurvives ==
    ( /\ log # <<>>
      /\ log[1].op \in {"apply_gatekeep", "revert"}
      /\ log[1].ok
      /\ log[1].before.hosts # NoFile
      /\ ~ReadsAsString(log[1].before.hosts) )
    => LET d == log[1].before.hosts
           unowned == SubSeq(d, 1, SetMin(Sentinels(d) \cup {Len(d)}))
       IN  Occurrences(hosts, unowned) # {}

\* the hosts of the regions map apply_gatekeep null-routes: the hosts in
\* scope of the regions outside the allow-set
NullRoutedByApply(call) ==
    { h \in UNION { HostsOf(app_regions.info, r) :
                      r \in DOMAIN app_regions.info
                            \ AllowedSet(app_regions, call.arg,
                                         call.opts.merge_unstable) } :
        InScope(PingNamedAnyCase, h, call.opts.block_mode) }

\* the hosts of the always-blocked regions
AlwaysBlockedHosts ==
    UNION { HostsOf(app_blocked.info, b) : b \in DOMAIN app_blocked.info }

\* after a successful apply_gatekeep, get_blocked_hostnames gives the
\* lower-cased names of the hosts the apply null-routed, which are the
\* hosts in scope of the regions outside the allow-set and the hosts of the
\* always-blocked regions, and no host of a region of the allow-set; on a
\* file with fewer than two sentinels it gives the empty set
BlockedAfterApply ==
    /\ Wrote("apply_gatekeep") =>
          /\ get_blocked_hostnames(Fs) =
                 { to_lowercase(<<h>>) :
                     h \in NullRoutedByApply(log[1]) \cup AlwaysBlockedHosts }
          /\ get_blocked_hostnames(Fs) =
                 { to_lowercase(<<h>>) :
                     h \in { g \in CatalogHosts \cup AlwaysBlockedHosts
                                  \cup HostsOf(GivenRegions.info,
                                               "Europe (London)") :
                               NullRouted(SectionFields(hosts), g) } }
          /\ \A r \in DOMAIN app_regions.info
                       \cap AllowedSet(app_regions, log[1].arg,
                                       log[1].opts.merge_unstable) :
                \A h \in HostsOf(app_regions.info, r) :
                    to_lowercase(<<h>>) \notin get_blocked_hostnames(Fs)
    /\ Cardinality(Sentinels(read_hosts(Fs))) < 2 =>
          get_blocked_hostnames(Fs) = {}

\* C30: after a successful apply_gatekeep get_blocked_hostnames gives the
\* lower-cased names of the hosts the apply null-routed and no host of an
\* allowed region; after a successful revert, and whenever the file holds
\* fewer than two sentinels, it gives the empty set.
C30_RoundTrip ==
    /\ BlockedAfterApply
    /\ Wrote("revert") => get_blocked_hostnames(Fs) = {}

---------------------------------------------------------------------------
(* Applies and reverts in a row, every one succeeding, on a document       *)
(* without sentinel                                                        *)

\* the number of calls in a row
MaxBlockOps == 3

\* the documents the row starts from: none holds a sentinel
BlockDocs ==
    { <<>>,
      <<"127.0.0.1">>,
      <<"127.0.0.1", " ", "localhost", NL>> }

\* the selections of the Gatekeep applies and the regions of the redirects
BlockSelections == { {"Europe (London)"}, {"Europe (Ireland)"} }

BlockRegions == { "Europe (London)", "Asia Pacific (Sydney)" }

\* the resolver of the row: every name resolves
BlockResolver == ResolverTable("3.3.3.3", "4.4.4.4")

InitBlocks ==
    /\ hosts \in BlockDocs
    /\ backup = NoFile
    /\ flushes = 0
    /\ app_regions \in { get_selectable_regions(o) : o \in SelectableOrders }
    /\ app_blocked \in { get_blocked_regions(o) : o \in BlockedOrders }
    /\ selected_regions = {}
    /\ settings = DefaultSettings
    /\ dialog = NoDialog
    /\ AwsNew
    /\ log = <<>>

BlockGatekeep ==
    /\ PolicyCalls < MaxBlockOps
    /\ \E selected \in BlockSelections :
         PolicyReturns("apply_gatekeep", selected,
                       [block_mode |-> "Both", merge_unstable |-> FALSE],
                       <<>>,
                       apply_gatekeep(Fs, app_regions, app_blocked, selected,
                                      "Both", FALSE, IoOk))

BlockRedirect ==
    /\ PolicyCalls < MaxBlockOps
    /\ \E selected_region \in BlockRegions :
         PolicyReturns("apply_universal_redirect", selected_region, <<>>,
                       BlockResolver,
                       apply_universal_redirect(Fs, app_regions, app_blocked,
                                                selected_region,
                                                BlockResolver, IoOk))

BlockRevert ==
    /\ PolicyCalls < MaxBlockOps
    /\ PolicyReturns("revert", <<>>, <<>>, <<>>, revert(Fs, IoOk))

NextBlocks == BlockGatekeep \/ BlockRedirect \/ BlockRevert

SpecBlocks == InitBlocks /\ [][NextBlocks]_vars

\* the block the last call generated, that call being an apply
LastBlock ==
    IF log[1].op = "apply_gatekeep"
    THEN GatekeepContent(app_regions, app_blocked, log[1].arg,
                         log[1].opts.block_mode, log[1].opts.merge_unstable)
    ELSE LET named == app_regions.info[log[1].arg].hosts
         IN  RedirectContent(app_regions, app_blocked, log[1].dns[named[1]],
                             log[1].dns[named[2]])

\* the first fields of the lines a Gatekeep block / a Universal Redirect
\* block gives to the hosts of the selectable regions
GatekeepMarks == { <<"#">>, <<"0.0.0.0">> }
RedirectMarks == { <<"3.3.3.3">>, <<"4.4.4.4">>, <<"5.5.5.5">>, <<"6.6.6.6">> }

\* the first fields of the lines of a document that name a host of the
\* selectable regions as second field
MarksOfHosts(d) ==
    LET ls == Lines(d) IN
    { SplitWhitespace(ls[k])[1] :
        k \in { i \in 1..Len(ls) :
                  /\ Len(SplitWhitespace(ls[i])) = 2
                  /\ Len(SplitWhitespace(ls[i])[2]) = 1
                  /\ SplitWhitespace(ls[i])[2][1] \in CatalogHosts } }

\* C28: in every state of a row of successful applies and reverts that
\* starts on a document without sentinel, the document holds no sentinel or
\* exactly two; it holds two exactly when the last call was an apply, and
\* then the text between them is the block of that apply; so the lines
\* for the selectable hosts are all of a Gatekeep block or all of a
\* Universal Redirect block.
C28_OneBlock ==
    LET n == Cardinality(Sentinels(hosts)) IN
    /\ n \in {0, 2}
    /\ (log = <<>> \/ (log # <<>> /\ log[1].op = "revert")) => n = 0
    /\ (log # <<>> /\ log[1].op # "revert") =>
          /\ log[1].ok
          /\ n = 2
          /\ ManagedSection(hosts) = <<NL>> \o LastBlock
    /\ ~( MarksOfHosts(hosts) \cap GatekeepMarks # {}
           /\ MarksOfHosts(hosts) \cap RedirectMarks # {} )

\* a redirect as third call, over the block of a Gatekeep apply
C28_Witness ==
    /\ log # <<>>
    /\ log[1].nth = 3
    /\ log[1].op = "apply_universal_redirect"
    /\ Cardinality(Sentinels(log[1].before.hosts)) = 2
    /\ MarksOfHosts(log[1].before.hosts) \cap GatekeepMarks # {}
    /\ MarksOfHosts(hosts) \cap RedirectMarks # {}


===========================================================================
